---- MODULE Spec2Model ----
(***************************************************************************)
(* A model of sqsieve, a quadratic-sieve factorizer.                       *)
(*                                                                         *)
(*   solver.rs           SparseRow, CongruenceSystem, produce_solution     *)
(*   numbers.rs          legendre, tonelli_shanks, trial_divide            *)
(*   sieve.rs            TestDivisionSieve, LogSieve                       *)
(*   factor_building.rs  build_numbers, test_factorization                 *)
(*   factorization.rs    run_factor                                        *)
(*                                                                         *)
(* Vec<T> is a sequence (1-based here, 0-based in the source), HashSet<T>  *)
(* a set, Option<T> either None or <<value>>.                              *)
(***************************************************************************)
EXTENDS Integers, Sequences, FiniteSets, TLC

VARIABLES
    pc,           \* which operation ran last / where the running function stands
    input,        \* SparseCountMap handed to CongruenceSystem::with_labels
    rows,         \* CongruenceSystem.rows      (each row: SparseRow.items)
    row_labels,   \* CongruenceSystem.row_labels
    x_labels,     \* CongruenceSystem.x_labels
    prev,         \* the rows as they were before the last operation
    args,         \* the arguments of the last operation
    diag_count,   \* how many times in a row diagonalize has run on rows
    vectors,      \* what fast_pivot returned
    solution,     \* what produce_solution returned
    n,            \* the number to factor
    factor_base,  \* the sieve's factor_base
    engine,       \* which sieve runs: "TestDivisionSieve" or "LogSieve"
    next_block,   \* the sieve cursor (next_number / next_block)
    log_treshold, \* LogSieve.log_treshold, as the weight whose ln it is
    roots,        \* LogSieve.roots
    numbers_to_find, \* the local of the running run()
    run_result,   \* the local result of the running run()
    threads,      \* run_parallel: the THREADS setting
    total_numbers, \* run_parallel: its argument
    tasks,        \* run_parallel: the tasks spawned, in spawn order
    results,      \* run_parallel: the atomic deficit counter
    result_queue, \* run_parallel: the batches pushed under the mutex
    status,       \* run_parallel: the bool guarded by lock
    dispatcher,   \* run_parallel: where the scope closure stands
    par_next_block, \* run_parallel: its local next_block
    table,        \* the relations found so far: [number, divisors]
    attempt,      \* <<turns of run_factor's loop done>>, None outside run_factor
    ratio,        \* run_factor's ratio as <<numerator, denominator>>
    built,        \* what build_numbers returned last, with its positions
    answer,       \* what run_factor returned
    ts_result,    \* what tonelli_shanks returned
    substituted,  \* Solution::subsitute: its arguments and what it returned
    free_mapping, \* find_factor_exhaustive: the vector increase works on
    tried,        \* the vectors handed to attempt_factorization, in order
    found,        \* what find_factor_exhaustive returned
    number_repr,  \* factorize: its argument, as the sequence of its characters
    outcome,      \* factorize: the branch it took and what it returned
    call,         \* a function called on its own: <<its name, its arguments>>
    returned      \* what that call returned

par_vars == <<threads, total_numbers, tasks, results, result_queue, status,
              dispatcher, par_next_block>>

sieve_vars == <<n, factor_base, engine, next_block, log_treshold, roots,
                numbers_to_find, run_result, table, attempt, ratio, built, answer,
                par_vars>>

solver_vars == <<input, rows, row_labels, x_labels, prev, args, diag_count,
                 vectors, solution>>

\* the variables of the calls that stand apart from a system or a sieve
factorize_vars == <<number_repr, outcome>>

pure_vars == <<call, returned>>

call_vars == <<substituted, free_mapping, tried, found, factorize_vars,
               pure_vars>>

vars == <<pc, solver_vars, sieve_vars, ts_result, call_vars>>

None == "None"

(***************************************************************************)
(* Bounds of the model.                                                    *)
(***************************************************************************)
MaxRows == 3      \* rows of a system drawn in Init
NumCols == 3      \* column indices 0..NumCols-1 occur in the drawn rows
MaxDiag == 2      \* consecutive diagonalize calls followed
MaxMapRows == 2   \* entries of a count map handed to with_labels
MaxItems == 2     \* (term, count) pairs of one entry
MaxCount == 2     \* counts 1..MaxCount
MaxPrime == 97    \* tonelli_shanks is called with the odd primes <= MaxPrime
MaxN == 200       \* and with n in 0..MaxN
MinWidePrime == 2654250 \* and with the primes of MinWidePrime..MaxWidePrime
MaxWidePrime == 2654300
MaxWideN == 9     \* and n in 0..MaxWideN
MinModulus == 84  \* the sieves run on the numbers MinModulus..MaxModulus
MaxModulus == 91
MaxPrimeBound == 5 \* with the primes up to 2..MaxPrimeBound
MaxTreshold == 6  \* and a log threshold of ln 1 .. ln MaxTreshold
MaxFind == 2      \* run and run_parallel are asked for 0..MaxFind numbers
MaxCursor == 30   \* no block or number is started above this cursor
MaxFactorCursor == 190 \* the same, for the sieve inside run_factor
MaxThreads == 2   \* THREADS is 0..MaxThreads
MaxTable == 1     \* no further run is started on a longer table
MaxPositions == 3 \* build_numbers is handed up to this many positions
MaxFree == 5 \* find_factor_exhaustive has up to this many free variables

\* run_parallel's variables while no run_parallel is under way
NoParallel ==
    /\ threads = 0
    /\ tasks = <<>>
    /\ total_numbers = 0
    /\ results = 0
    /\ result_queue = <<>>
    /\ status = FALSE
    /\ dispatcher = None
    /\ par_next_block = 0

\* call_vars in the specifications that make none of these calls
NoCall ==
    /\ substituted = None
    /\ free_mapping = <<>>
    /\ tried = <<>>
    /\ found = None
    /\ number_repr = <<>>
    /\ outcome = None
    /\ call = None
    /\ returned = None

\* The sieve's variables in the specifications that run no sieve
NoSieve ==
    /\ NoParallel
    /\ n = 0
    /\ factor_base = <<>>
    /\ engine = None
    /\ next_block = 0
    /\ log_treshold = 0
    /\ roots = <<>>
    /\ numbers_to_find = 0
    /\ run_result = <<>>
    /\ table = <<>>
    /\ attempt = None
    /\ ratio = <<0, 1>>
    /\ built = None
    /\ answer = None

(***************************************************************************)
(* Sequence helpers.                                                       *)
(***************************************************************************)
Range(s) == {s[i] : i \in DOMAIN s}

SeqsUpTo(S, k) == UNION {[1..m -> S] : m \in 0..k}

IsStrictlyIncreasing(s) == \A i \in 1..(Len(s) - 1) : s[i] < s[i + 1]

\* 0, 1, ..., k-1 as a Vec
Iota(k) == [i \in 1..k |-> i - 1]

(***************************************************************************)
(* solver.rs: SparseRow                                                    *)
(***************************************************************************)

\* add_inpace with the cancelling arm pushing the common term once (a union)
RECURSIVE add_inpace_union(_, _)
add_inpace_union(self, other) ==
    IF self = <<>> THEN other
    ELSE IF other = <<>> THEN self
    ELSE IF Head(self) < Head(other)
         THEN <<Head(self)>> \o add_inpace_union(Tail(self), other)
    ELSE IF Head(self) > Head(other)
         THEN <<Head(other)>> \o add_inpace_union(self, Tail(other))
    ELSE <<Head(self)>> \o add_inpace_union(Tail(self), Tail(other))

\* SparseRow::add_inpace: the merge loop over the two peekable iterators.
RECURSIVE add_inpace(_, _)
add_inpace(self, other) ==
    IF self = <<>> THEN other
    ELSE IF other = <<>> THEN self
    ELSE IF Head(self) < Head(other)
         THEN <<Head(self)>> \o add_inpace(Tail(self), other)
    ELSE IF Head(self) > Head(other)
         THEN <<Head(other)>> \o add_inpace(self, Tail(other))
    ELSE add_inpace(Tail(self), Tail(other))

\* SparseRow::contains: a binary search of items, which are sorted in every
\* row the code builds (From sorts, add_inpace merges sorted sequences).
contains(row, item) == \E i \in DOMAIN row : row[i] = item

is_zero(row) == row = <<>>

\* SparseRow::least_term: Option<usize>
least_term(row) == IF row = <<>> THEN None ELSE <<row[1]>>

\* sort_unstable on a Vec<usize>: insertion of the head into the sorted tail
RECURSIVE InsertNat(_, _)
InsertNat(x, s) ==
    IF s = <<>> THEN <<x>>
    ELSE IF x <= Head(s) THEN <<x>> \o s
    ELSE <<Head(s)>> \o InsertNat(x, Tail(s))

RECURSIVE sort_unstable(_)
sort_unstable(s) ==
    IF s = <<>> THEN <<>> ELSE InsertNat(Head(s), sort_unstable(Tail(s)))

\* impl From<&[(usize, usize)]> for SparseRow: the terms with an odd count,
\* sorted. value is a sequence of <<term, count>>.
RECURSIVE OddTerms(_)
OddTerms(value) ==
    IF value = <<>> THEN <<>>
    ELSE IF Head(value)[2] % 2 = 1
         THEN <<Head(value)[1]>> \o OddTerms(Tail(value))
    ELSE OddTerms(Tail(value))

SparseRowFrom(value) == sort_unstable(OddTerms(value))

\* Vec<usize>::cmp: lexicographic. -1 Less, 0 Equal, 1 Greater.
RECURSIVE VecCmp(_, _)
VecCmp(a, b) ==
    IF a = <<>> THEN (IF b = <<>> THEN 0 ELSE -1)
    ELSE IF b = <<>> THEN 1
    ELSE IF Head(a) < Head(b) THEN -1
    ELSE IF Head(a) > Head(b) THEN 1
    ELSE VecCmp(Tail(a), Tail(b))

\* impl PartialOrd for SparseRow: zero rows go last.
partial_cmp(self, other) ==
    IF is_zero(self) /\ is_zero(other) THEN 0
    ELSE IF is_zero(other) THEN -1
    ELSE IF is_zero(self) THEN 1
    ELSE VecCmp(self, other)

\* slice.sort() under that order: a stable sort.
RECURSIVE InsertRow(_, _)
InsertRow(r, s) ==
    IF s = <<>> THEN <<r>>
    ELSE IF partial_cmp(r, Head(s)) <= 0 THEN <<r>> \o s
    ELSE <<Head(s)>> \o InsertRow(r, Tail(s))

RECURSIVE reorder_descending_slice(_)
reorder_descending_slice(slice) ==
    IF slice = <<>> THEN <<>>
    ELSE InsertRow(Head(slice), reorder_descending_slice(Tail(slice)))

(***************************************************************************)
(* solver.rs: CongruenceSystem                                             *)
(***************************************************************************)

\* CongruenceSystem::with_labels: one SparseRow per entry of the count map.
with_labels_rows(count_map) ==
    [i \in DOMAIN count_map |-> SparseRowFrom(count_map[i])]

\* DiagStep without the sort of the tail that ends each pass
DiagStepNoSort(rs, row_number) ==
    LET term == rs[row_number][1]
    IN  [k \in DOMAIN rs |->
            IF k > row_number /\ ~is_zero(rs[k]) /\ rs[k][1] = term
            THEN add_inpace(rs[k], rs[row_number])
            ELSE rs[k]]

\* One pass of the outer loop of diagonalize at row_number (1-based): add the
\* row into every later row with the same least term, then sort the tail.
DiagStep(rs, row_number) ==
    LET term == rs[row_number][1]
        added == [k \in DOMAIN rs |->
                    IF k > row_number /\ ~is_zero(rs[k]) /\ rs[k][1] = term
                    THEN add_inpace(rs[k], rs[row_number])
                    ELSE rs[k]]
    IN  SubSeq(added, 1, row_number)
          \o reorder_descending_slice(SubSeq(added, row_number + 1, Len(added)))

RECURSIVE DiagLoop(_, _)
DiagLoop(rs, row_number) ==
    IF row_number > Len(rs) THEN rs
    ELSE IF is_zero(rs[row_number]) THEN rs
    ELSE DiagLoop(DiagStep(rs, row_number), row_number + 1)

\* diagonalize without the reorder_descending call that opens it
diagonalize_unsorted(rs) == DiagLoop(rs, 1)

\* CongruenceSystem::diagonalize
diagonalize(rs) == DiagLoop(reorder_descending_slice(rs), 1)

\* CongruenceSystem::transpose: the new rows, one per entry of x_labels.
transpose_rows(rs, rlabels, xlabels) ==
    [j \in DOMAIN xlabels |->
        LET m == IF Len(rs) < Len(rlabels) THEN Len(rs) ELSE Len(rlabels)
            Items[k \in 0..m] ==
                IF k = 0 THEN <<>>
                ELSE IF contains(rs[k], xlabels[j])
                     THEN Append(Items[k - 1], <<rlabels[k], 1>>)
                ELSE Items[k - 1]
        IN  SparseRowFrom(Items[m])]

\* PivotStep that clears the pivot column only in the rows below the pivot row
PivotStepBelow(st, row_number) ==
    LET i == st.rows[row_number][1]
    IN  [rows    |-> [k \in DOMAIN st.rows |->
                        IF k > row_number /\ contains(st.rows[k], i)
                        THEN add_inpace(st.rows[k], st.rows[row_number])
                        ELSE st.rows[k]],
         marking |-> st.marking \cup {i},
         pivots  |-> [r \in DOMAIN st.pivots \cup {row_number} |->
                        IF r = row_number THEN i ELSE st.pivots[r]]]

\* The first loop of fast_pivot from row_number on. st = [rows, marking,
\* pivots]; pivots is the HashMap row -> column as a function.
PivotStep(st, row_number) ==
    LET i == st.rows[row_number][1]
    IN  [rows    |-> [k \in DOMAIN st.rows |->
                        IF k # row_number /\ contains(st.rows[k], i)
                        THEN add_inpace(st.rows[k], st.rows[row_number])
                        ELSE st.rows[k]],
         marking |-> st.marking \cup {i},
         pivots  |-> [r \in DOMAIN st.pivots \cup {row_number} |->
                        IF r = row_number THEN i ELSE st.pivots[r]]]

RECURSIVE PivotLoop(_, _)
PivotLoop(st, row_number) ==
    IF row_number > Len(st.rows) THEN st
    ELSE IF is_zero(st.rows[row_number]) THEN PivotLoop(st, row_number + 1)
    ELSE PivotLoop(PivotStep(st, row_number), row_number + 1)

\* The rows whose pivot the second loop pushes for column number.
RowsWith(rs, number) == {r \in DOMAIN rs : contains(rs[r], number)}

\* vec![number] followed by pivots[&row_id] for the rows that contain number,
\* in row order.
Subresult(st, number) ==
    LET Acc[k \in 0..Len(st.rows)] ==
            IF k = 0 THEN <<number>>
            ELSE IF contains(st.rows[k], number)
                 THEN Append(Acc[k - 1], st.pivots[k])
            ELSE Acc[k - 1]
    IN  Acc[Len(st.rows)]

\* CongruenceSystem::fast_pivot after its assertion:
\* [rows (as mutated), result, panic (pivots[&row_id] on a missing key)]
fast_pivot(rs, xlabels) ==
    LET st == PivotLoop([rows |-> rs, marking |-> {}, pivots |-> <<>>], 1)
        unmarked == {j \in DOMAIN xlabels : xlabels[j] \notin st.marking}
        missing == \E j \in unmarked :
                      \E r \in RowsWith(st.rows, xlabels[j]) :
                          r \notin DOMAIN st.pivots
        Res[j \in 0..Len(xlabels)] ==
            IF j = 0 THEN <<>>
            ELSE IF j \in unmarked
                 THEN Append(Res[j - 1], Subresult(st, xlabels[j]))
            ELSE Res[j - 1]
    IN  [rows   |-> st.rows,
         result |-> IF missing THEN <<>> ELSE Res[Len(xlabels)],
         panic  |-> missing]

(***************************************************************************)
(* solver.rs: produce_solution                                             *)
(***************************************************************************)

\* The first loop: it breaks at the first zero row.
ConstantRows(rs) ==
    {i \in DOMAIN rs : /\ \A k \in 1..i : ~is_zero(rs[k])
                       /\ Len(rs[i]) = 1}

\* The rows the filter over system.rows.iter().rev() keeps, as indices.
IsDependencyRow(row, constants) ==
    Len(row) >= 2 /\ Cardinality(Range(row) \ constants) > 1

\* DependencyLoop that takes every right-side term as free, dependent or not
RECURSIVE DependencyLoopAllFree(_, _, _, _)
DependencyLoopAllFree(rs, constants, k, acc) ==
    IF k = 0 THEN acc
    ELSE IF ~IsDependencyRow(rs[k], constants)
         THEN DependencyLoopAllFree(rs, constants, k - 1, acc)
    ELSE LET dep == rs[k]
             right_side == {dep[j] : j \in 2..Len(dep)} \ constants
         IN  DependencyLoopAllFree(rs, constants, k - 1,
                [dependant_vars |-> acc.dependant_vars \cup {dep[1]},
                 free_variables |-> acc.free_variables \cup right_side,
                 relations      |-> Append(acc.relations,
                                       [variable |-> dep[1],
                                        factors  |-> right_side])])

\* The loop over the dependencies, which come last row first. acc =
\* [dependant_vars, free_variables, relations]; k runs from Len(rs) down to 1.
RECURSIVE DependencyLoop(_, _, _, _)
DependencyLoop(rs, constants, k, acc) ==
    IF k = 0 THEN acc
    ELSE IF ~IsDependencyRow(rs[k], constants)
         THEN DependencyLoop(rs, constants, k - 1, acc)
    ELSE LET dep == rs[k]
             dependant_vars == acc.dependant_vars \cup {dep[1]}
             right_side == {dep[j] : j \in 2..Len(dep)} \ constants
         IN  DependencyLoop(rs, constants, k - 1,
                [dependant_vars |-> dependant_vars,
                 free_variables |-> acc.free_variables
                                      \cup (right_side \ dependant_vars),
                 relations      |-> Append(acc.relations,
                                       [variable |-> dep[1],
                                        factors  |-> right_side])])

produce_solution(rs, xlabels) ==
    LET constants == {rs[i][1] : i \in ConstantRows(rs)}
        acc == DependencyLoop(rs, constants, Len(rs),
                  [dependant_vars |-> {}, free_variables |-> {},
                   relations |-> <<>>])
        participating == acc.dependant_vars \cup acc.free_variables
                            \cup constants
    IN  [vars             |-> Range(xlabels),
         free_variables   |-> acc.free_variables,
         lonely_variables |-> Range(xlabels) \ participating,
         constants        |-> constants,
         dependencies     |-> acc.relations]

\* answer[idx] = value of subsitute.  answer is a Vec of vars.len() bools,
\* indexed from 0: an idx of vars.len() or more panics (index out of bounds).
Put(st, idx, value) ==
    IF st.panic \/ idx >= Len(st.answer)
    THEN [panic |-> TRUE, answer |-> st.answer]
    ELSE [panic |-> FALSE, answer |-> [st.answer EXCEPT ![idx + 1] = value]]

\* the first loop: free_variables.iter().zip(free_vars.iter()); order is the
\* order in which the HashSet hands out its elements
RECURSIVE FreeLoop(_, _, _, _)
FreeLoop(st, order, free_vars, k) ==
    IF k > Len(order) \/ k > Len(free_vars) THEN st
    ELSE FreeLoop(Put(st, order[k], free_vars[k]), order, free_vars, k + 1)

\* the loop over lonely_variables: answer[var] = true
RECURSIVE LonelyLoop(_, _)
LonelyLoop(st, lonely) ==
    IF lonely = {} THEN st
    ELSE LET var == CHOOSE v \in lonely : TRUE
         IN  LonelyLoop(Put(st, var, TRUE), lonely \ {var})

\* the loop over the dependencies: the sum of answer over dep.factors by
\* reduce(|a, b| a != b).unwrap(), which panics on no factor at all
RECURSIVE SubstituteDeps(_, _, _)
SubstituteDeps(st, deps, k) ==
    IF k > Len(deps) \/ st.panic THEN st
    ELSE LET factors == deps[k].factors
         IN  IF factors = {} \/ \E idx \in factors : idx >= Len(st.answer)
             THEN [panic |-> TRUE, answer |-> st.answer]
             ELSE LET ones == {idx \in factors : st.answer[idx + 1]}
                      sum == Cardinality(ones) % 2 = 1
                  IN  SubstituteDeps(Put(st, deps[k].variable, sum), deps,
                                     k + 1)

\* Solution::subsitute(free_vars, one_lonelies): [panic, answer]
subsitute(sol, order, free_vars, one_lonelies) ==
    IF Len(free_vars) # Cardinality(sol.free_variables)
    THEN [panic |-> TRUE, answer |-> <<>>]
    ELSE LET zeros == [i \in 1..Cardinality(sol.vars) |-> FALSE]
             freed == FreeLoop([panic |-> FALSE, answer |-> zeros], order,
                               free_vars, 1)
             lonelied == IF one_lonelies
                         THEN LonelyLoop(freed, sol.lonely_variables)
                         ELSE freed
         IN  SubstituteDeps(lonelied, sol.dependencies, 1)

(***************************************************************************)
(* The solver's operations as actions on one CongruenceSystem.             *)
(***************************************************************************)

\* The strictly increasing rows over the columns 0..NumCols-1
StrictRows == {r \in SeqsUpTo(0..(NumCols - 1), NumCols) : IsStrictlyIncreasing(r)}

\* the x_labels of CongruenceSystem::new: the items of the rows, collected
\* in a HashSet and sorted
RECURSIVE SortedFrom(_)
SortedFrom(S) ==
    IF S = {} THEN <<>>
    ELSE LET least == CHOOSE x \in S : \A y \in S : x <= y
         IN  <<least>> \o SortedFrom(S \ {least})

new_labels(rs) == SortedFrom(UNION {Range(rs[i]) : i \in DOMAIN rs})

\* A system as with_labels or new builds it: rows that satisfy the SparseRow
\* invariant, rows labelled 0..m-1, columns 0..k-1 (as run_factor has them)
\* or the columns that occur in the rows (as new collects them).
InitSolver ==
    /\ pc = "init"
    /\ input = <<>>
    /\ rows \in SeqsUpTo(StrictRows, MaxRows)
    /\ row_labels = Iota(Len(rows))
    /\ \/ \E k \in (NumCols - 1)..(NumCols + 1) : x_labels = Iota(k)
       \/ x_labels = new_labels(rows)
    /\ prev = <<>>
    /\ args = <<>>
    /\ diag_count = 0
    /\ vectors = <<>>
    /\ solution = None
    /\ NoSieve
    /\ ts_result = None
    /\ NoCall

\* rows[i] += &rows[j]  (impl AddAssign, as diagonalize uses it)
AddAssign ==
    /\ pc = "init"
    /\ \E i \in DOMAIN rows : \E j \in DOMAIN rows \ {i} :
          /\ rows' = [rows EXCEPT ![i] = add_inpace(rows[i], rows[j])]
          /\ args' = <<i, j>>
    /\ prev' = rows
    /\ pc' = "added"
    /\ diag_count' = 0
    /\ UNCHANGED <<input, row_labels, x_labels, vectors, solution>>
    /\ UNCHANGED <<sieve_vars, ts_result, call_vars>>

Diagonalize ==
    /\ pc \in {"init", "diagonalized"}
    /\ diag_count < MaxDiag
    /\ rows' = diagonalize(rows)
    /\ prev' = rows
    /\ args' = <<>>
    /\ pc' = "diagonalized"
    /\ diag_count' = diag_count + 1
    /\ UNCHANGED <<input, row_labels, x_labels, vectors, solution>>
    /\ UNCHANGED <<sieve_vars, ts_result, call_vars>>

\* system.transpose(), and .transpose() again on what it returned.  prev and
\* args keep the rows and the two label lists of the system the first call
\* consumed.
Transpose ==
    /\ pc \in {"init", "transposed"}
    /\ rows' = transpose_rows(rows, row_labels, x_labels)
    /\ row_labels' = x_labels
    /\ x_labels' = row_labels
    /\ IF pc = "init"
       THEN /\ prev' = rows
            /\ args' = <<row_labels, x_labels>>
            /\ pc' = "transposed"
       ELSE /\ UNCHANGED <<prev, args>>
            /\ pc' = "transposed_twice"
    /\ diag_count' = 0
    /\ UNCHANGED <<input, vectors, solution>>
    /\ UNCHANGED <<sieve_vars, ts_result, call_vars>>

\* fast_pivot: the assertion, then the two loops.
FastPivot ==
    /\ pc = "init"
    /\ prev' = rows
    /\ args' = <<>>
    /\ diag_count' = 0
    /\ IF Len(x_labels) > Len(rows)
       THEN LET r == fast_pivot(rows, x_labels)
            IN  /\ rows' = r.rows
                /\ vectors' = r.result
                /\ pc' = IF r.panic THEN "panic" ELSE "pivoted"
       ELSE /\ pc' = "panic"
            /\ UNCHANGED <<rows, vectors>>
    /\ UNCHANGED <<input, row_labels, x_labels, solution>>
    /\ UNCHANGED <<sieve_vars, ts_result, call_vars>>

ProduceSolution ==
    /\ pc \in {"init", "diagonalized"}
    /\ solution' = produce_solution(rows, x_labels)
    /\ pc' = "solved"
    /\ UNCHANGED <<input, rows, row_labels, x_labels, prev, args, diag_count,
                   vectors>>
    /\ UNCHANGED <<sieve_vars, ts_result, call_vars>>

\* the orders in which a HashSet may hand out the elements of S
Orders(S) ==
    {o \in [1..Cardinality(S) -> S] :
        \A i, j \in DOMAIN o : i # j => o[i] # o[j]}

\* solution.subsitute(free_vars, one_lonelies), free_vars of the right length
Substitute ==
    /\ pc = "solved"
    /\ \E order \in Orders(solution.free_variables),
          free_vars \in [1..Cardinality(solution.free_variables) -> BOOLEAN],
          one_lonelies \in BOOLEAN :
          substituted' =
              [free_vars |-> free_vars,
               one_lonelies |-> one_lonelies,
               out |-> subsitute(solution, order, free_vars, one_lonelies)]
    /\ pc' = "substituted"
    /\ UNCHANGED <<pure_vars, factorize_vars, free_mapping, tried, found, solver_vars, sieve_vars,
                   ts_result>>

NextSolver ==
    \/ AddAssign
    \/ Diagonalize
    \/ Transpose
    \/ FastPivot
    \/ ProduceSolution
    \/ Substitute

SpecSolver == InitSolver /\ [][NextSolver]_vars

(***************************************************************************)
(* Claims about the solver, checked under SpecSolver.                      *)
(***************************************************************************)

\* How many entries of the vector v the row contains
Hits(row, v) == Cardinality({i \in DOMAIN v : contains(row, v[i])})

\* The columns that are the least term of a nonzero row
LeastTerms(rs) == {rs[r][1] : r \in {q \in DOMAIN rs : ~is_zero(rs[q])}}

\* The entries of s that are not in S, in order
RECURSIVE Without(_, _)
Without(s, S) ==
    IF s = <<>> THEN <<>>
    ELSE IF Head(s) \in S THEN Without(Tail(s), S)
    ELSE <<Head(s)>> \o Without(Tail(s), S)

\* C3: every vector fast_pivot returns is a GF(2) dependency of the matrix as
\* it was before the call (each row contains an even number of the vector's
\* columns), and there is exactly one vector per column of x_labels that was
\* not chosen as a pivot, headed by that column: at least one.
C3_FastPivotDependencies ==
    pc = "pivoted" =>
        /\ \A i \in DOMAIN vectors : \A r \in DOMAIN prev :
              Hits(prev[r], vectors[i]) % 2 = 0
        /\ [i \in DOMAIN vectors |-> vectors[i][1]]
              = Without(x_labels, LeastTerms(rows))
        /\ Len(vectors) >= 1

C3_Witness ==
    /\ pc = "pivoted"
    /\ Len(vectors) >= 2
    /\ \E i \in DOMAIN vectors : Len(vectors[i]) >= 3
    /\ rows # prev

\* C7: after r1.add_inpace(r2) on strictly increasing rows, r1 holds the
\* symmetric difference of the two index sets in ascending order and r2 is
\* unchanged.
C7_AddIsSymmetricDifference ==
    pc = "added" =>
        LET r1 == prev[args[1]]
            r2 == prev[args[2]]
        IN  /\ Range(rows[args[1]])
                  = (Range(r1) \ Range(r2)) \cup (Range(r2) \ Range(r1))
            /\ IsStrictlyIncreasing(rows[args[1]])
            /\ rows[args[2]] = r2

C7_Witness ==
    /\ pc = "added"
    /\ prev[args[1]] = <<0, 2>>
    /\ prev[args[2]] = <<1, 2>>
    /\ rows[args[1]] = <<0, 1>>

\* The classes of a Solution
DependentVars(sol) == {sol.dependencies[i].variable : i \in DOMAIN sol.dependencies}

RowItemsInLabels == \A r \in DOMAIN rows : Range(rows[r]) \subseteq Range(x_labels)

\* C8: for a diagonalized system whose row items all belong to x_labels, the
\* free, dependent, constant and lonely variables of produce_solution are
\* pairwise disjoint and their union is x_labels.
C8_SolutionPartitions ==
    (pc = "solved" /\ diag_count >= 1 /\ RowItemsInLabels) =>
        LET f == solution.free_variables
            d == DependentVars(solution)
            c == solution.constants
            l == solution.lonely_variables
        IN  /\ f \cap d = {} /\ f \cap c = {} /\ f \cap l = {}
            /\ d \cap c = {} /\ d \cap l = {} /\ c \cap l = {}
            /\ f \cup d \cup c \cup l = Range(x_labels)

C8_Witness ==
    /\ pc = "solved" /\ diag_count >= 1 /\ RowItemsInLabels
    /\ solution.free_variables # {}
    /\ DependentVars(solution) # {}
    /\ solution.constants # {}
    /\ solution.lonely_variables # {}

\* The GF(2) sum of the rows picked by S, as a set of columns
RECURSIVE XorRows(_, _)
XorRows(rs, S) ==
    IF S = {} THEN {}
    ELSE LET r == CHOOSE q \in S : TRUE
             rest == XorRows(rs, S \ {r})
         IN  (rest \ Range(rs[r])) \cup (Range(rs[r]) \ rest)

RowSpace(rs) == {XorRows(rs, S) : S \in SUBSET DOMAIN rs}

\* C9: after diagonalize the nonzero rows come first, in strictly increasing
\* order of least term (so no two share one), the zero rows last, and the
\* GF(2) row space is that of the system before the call.
C9_DiagonalizeShape ==
    pc = "diagonalized" =>
        /\ \A i, j \in DOMAIN rows :
              (i < j /\ ~is_zero(rows[j])) =>
                  (~is_zero(rows[i]) /\ rows[i][1] < rows[j][1])
        /\ RowSpace(rows) = RowSpace(prev)

C9_Witness ==
    /\ pc = "diagonalized"
    /\ diag_count = 1
    /\ rows # reorder_descending_slice(prev)
    /\ \E i \in DOMAIN rows : is_zero(rows[i])
    /\ \A i \in DOMAIN prev : ~is_zero(prev[i])

\* C10: diagonalize applied to a system that diagonalize has just produced
\* leaves the sequence of rows as it is.
C10_DiagonalizeIdempotent ==
    (pc = "diagonalized" /\ diag_count >= 2) => rows = prev

C10_Witness ==
    /\ pc = "diagonalized"
    /\ diag_count = 2
    /\ Len(rows) = MaxRows
    /\ \E i \in DOMAIN rows : Len(rows[i]) >= 2
    /\ \E i \in DOMAIN rows : is_zero(rows[i])

\* the call that C12 is about: a solution of a diagonalized system, an
\* all-false free vector, no lonelies
AllFalseCall ==
    /\ pc = "substituted"
    /\ diag_count > 0
    /\ \A i \in DOMAIN substituted.free_vars : ~substituted.free_vars[i]
    /\ ~substituted.one_lonelies

\* C12: for every Solution produced from a diagonalized system, subsitute
\* with an all-false free vector and one_lonelies = false returns an
\* all-false assignment of length |vars|.
C12_AllFalseSubstitution ==
    AllFalseCall =>
        /\ ~substituted.out.panic
        /\ substituted.out.answer = [i \in 1..Len(x_labels) |-> FALSE]

\* C12 on the systems whose labels are the indices 0..k-1 and whose rows
\* stay within them (what gaussian_multistage hands over)
C12_OnIndexLabels ==
    (AllFalseCall /\ x_labels = Iota(Len(x_labels)) /\ RowItemsInLabels) =>
        /\ ~substituted.out.panic
        /\ substituted.out.answer = [i \in 1..Len(x_labels) |-> FALSE]

C12_PanicState ==
    /\ AllFalseCall
    /\ RowItemsInLabels
    /\ x_labels = <<1, 2>>
    /\ substituted.out.panic

\* the assignment answer, indexed by column, has an even number of the
\* columns of row set (a column the answer does not hold is not set): the
\* row's equation over GF(2) holds
RowEquationHolds(row, assignment) ==
    Cardinality({v \in Range(row) :
        v + 1 \in DOMAIN assignment /\ assignment[v + 1]}) % 2 = 0

\* C24: for a diagonalized system, a variable that produce_solution puts in
\* lonely_variables occurs in no row of the matrix, and subsitute with
\* one_lonelies = true, which sets it to 1, returns an assignment that
\* violates no row equation.
C24_LonelyIsUnconstrained ==
    (pc \in {"solved", "substituted"} /\ diag_count > 0) =>
        /\ \A v \in solution.lonely_variables :
              \A r \in DOMAIN rows : v \notin Range(rows[r])
        /\ (pc = "substituted" /\ substituted.one_lonelies) =>
              /\ ~substituted.out.panic
              /\ \A r \in DOMAIN rows :
                    RowEquationHolds(rows[r], substituted.out.answer)

\* the first half of C24 alone
C24_LonelyInNoRow ==
    (pc \in {"solved", "substituted"} /\ diag_count > 0) =>
        \A v \in solution.lonely_variables :
            \A r \in DOMAIN rows : v \notin Range(rows[r])

\* x0 + x1 = 0 and x1 = 0: column 0 is lonely, and setting it to 1 breaks the
\* first row
C24_ConstrainedLonelyState ==
    /\ pc = "substituted"
    /\ diag_count > 0
    /\ rows = <<<<0, 1>>, <<1>>>>
    /\ x_labels = <<0, 1>>
    /\ solution.lonely_variables = {0}
    /\ substituted.one_lonelies
    /\ substituted.out.answer = <<TRUE, FALSE>>
    /\ ~RowEquationHolds(rows[1], substituted.out.answer)

\* the call that C28 is about: a solution of a diagonalized system, any
\* values of the free variables, no lonelies
NoLonelyCall ==
    /\ pc = "substituted"
    /\ diag_count > 0
    /\ ~substituted.one_lonelies

\* C28: for every diagonalized system and every assignment of the free
\* variables, subsitute(free_values, false) returns a GF(2) solution: every
\* row of the system has an even number of its variables set.
C28_SubstituteSolves ==
    NoLonelyCall =>
        /\ ~substituted.out.panic
        /\ \A r \in DOMAIN rows :
              RowEquationHolds(rows[r], substituted.out.answer)

\* C28 on the systems whose labels are the indices 0..k-1 and whose rows
\* stay within them
C28_OnIndexLabels ==
    (NoLonelyCall /\ x_labels = Iota(Len(x_labels)) /\ RowItemsInLabels) =>
        /\ ~substituted.out.panic
        /\ \A r \in DOMAIN rows :
              RowEquationHolds(rows[r], substituted.out.answer)

\* x0 + x1 = 0, x1 + x2 = 0, x2 = 0, which diagonalize leaves as it is: the
\* row x1 + x2 = 0 is in no dependency, x1 is free, and with x1 = 1 the
\* answer (1, 1, 0) breaks it
C28_UnsolvedRowState ==
    /\ NoLonelyCall
    /\ prev = <<<<0, 1>>, <<1, 2>>, <<2>>>>
    /\ rows = prev
    /\ x_labels = <<0, 1, 2>>
    /\ solution.free_variables = {1}
    /\ substituted.free_vars = <<TRUE>>
    /\ substituted.out.answer = <<TRUE, TRUE, FALSE>>
    /\ ~RowEquationHolds(rows[2], substituted.out.answer)

\* the system is one whose rows only hold columns of x_labels
ItemsInLabels(rs, xlabels) ==
    \A r \in DOMAIN rs : Range(rs[r]) \subseteq Range(xlabels)

\* C11: transpose applied twice yields a system with the same row_labels and
\* x_labels and the same set of SparseRows as the original, for every
\* CongruenceSystem.
C11_TransposeTwice ==
    pc = "transposed_twice" =>
        /\ row_labels = args[1]
        /\ x_labels = args[2]
        /\ Range(rows) = Range(prev)

\* C11 on the systems whose rows stay within x_labels (what run_factor
\* builds): the second transpose returns the very rows, in their order.
C11_OnCoveredSystems ==
    (pc = "transposed_twice" /\ ItemsInLabels(prev, args[2])) =>
        /\ row_labels = args[1]
        /\ x_labels = args[2]
        /\ rows = prev

C11_LossyState ==
    /\ pc = "transposed_twice"
    /\ prev = <<<<2>>>>
    /\ rows = <<<<>>>>

(***************************************************************************)
(* CongruenceSystem::with_labels on any count map: SpecFrom.               *)
(***************************************************************************)

\* The (term, count) lists: any terms in any order, repeated or not
CountLists == SeqsUpTo((0..(NumCols - 1)) \X (1..MaxCount), MaxItems)

InitFrom ==
    /\ pc = "input"
    /\ input \in SeqsUpTo(CountLists, MaxMapRows)
    /\ rows = <<>>
    /\ row_labels = Iota(Len(input))
    /\ x_labels = Iota(NumCols)
    /\ prev = <<>>
    /\ args = <<>>
    /\ diag_count = 0
    /\ vectors = <<>>
    /\ solution = None
    /\ NoSieve
    /\ ts_result = None
    /\ NoCall

\* CongruenceSystem::with_labels(&input, x_labels, row_labels)
WithLabels ==
    /\ pc = "input"
    /\ rows' = with_labels_rows(input)
    /\ pc' = "init"
    /\ UNCHANGED <<input, row_labels, x_labels, prev, args, diag_count,
                   vectors, solution>>
    /\ UNCHANGED <<sieve_vars, ts_result, call_vars>>

NextFrom ==
    \/ WithLabels
    \/ AddAssign
    \/ Diagonalize
    \/ Transpose
    \/ FastPivot
    \/ ProduceSolution

SpecFrom == InitFrom /\ [][NextFrom]_vars

\* C6: every SparseRow of a CongruenceSystem has strictly increasing items,
\* whatever (term, count) lists with_labels built the rows from and after
\* transpose, add_inpace, diagonalize and fast_pivot.
C6_RowsStrictlyIncreasing ==
    \A r \in DOMAIN rows : IsStrictlyIncreasing(rows[r])

(***************************************************************************)
(* numbers.rs                                                              *)
(***************************************************************************)

RECURSIVE gcd(_, _)
gcd(a, b) == IF b = 0 THEN a ELSE gcd(b, a % b)

\* (a * b) mod m on BigUint: exact.  Above 2^15 the model takes b a byte at
\* a time, so that no intermediate value leaves the range of its own
\* integers (m is below 2^23).
RECURSIVE MulMod(_, _, _)
MulMod(a, b, m) ==
    IF a = 0 \/ b = 0 THEN 0
    ELSE IF m < 2 ^ 15 THEN ((a % m) * (b % m)) % m
    ELSE LET h == MulMod(a, b \div 256, m)
         IN  (((h * 256) % m) + (((a % m) * (b % 256)) % m)) % m

\* BigUint::modpow: x^e mod m by squaring
RECURSIVE modpow(_, _, _)
modpow(x, e, m) ==
    IF e = 0 THEN 1 % m
    ELSE LET h == modpow(x, e \div 2, m)
             sq == MulMod(h, h, m)
         IN  IF e % 2 = 1 THEN MulMod(sq, x, m) ELSE sq

\* upcast_modpow: the modpow of the three values as BigUint, back as usize
\* (the result is below m, one u64 digit, and no digit at all when it is 0)
upcast_modpow(x, e, m) == modpow(x, e, m)

legendre(a, p) ==
    LET power == (p - 1) \div 2
        res == modpow(a, power, p)
    IN  IF res = p - 1 THEN -1
        ELSE IF res = 0 THEN 0
        ELSE 1

\* A usize is 64 bits wide: the model keeps it as its 8 bytes, the least
\* significant first.
RECURSIVE BytesOf(_, _)
BytesOf(v, k) ==
    IF k = 0 THEN <<>> ELSE <<v % 256>> \o BytesOf(v \div 256, k - 1)

\* bytes * m from byte k on: <<the bytes of the product, the carry out>>
RECURSIVE TimesFrom(_, _, _, _)
TimesFrom(bytes, m, k, carry) ==
    IF k > Len(bytes) THEN <<<<>>, carry>>
    ELSE LET v == bytes[k] * m + carry
             rest == TimesFrom(bytes, m, k + 1, v \div 256)
         IN  <<<<v % 256>> \o rest[1], rest[2]>>

\* usize * usize: the wrapped product and whether it overflowed
usize_mul(bytes, m) ==
    LET product == TimesFrom(bytes, m, 1, 0)
    IN  [bytes |-> product[1], overflow |-> product[2] # 0]

\* usize % p
RECURSIVE RemFrom(_, _, _, _)
RemFrom(bytes, p, k, r) ==
    IF k = 0 THEN r ELSE RemFrom(bytes, p, k - 1, (r * 256 + bytes[k]) % p)

usize_rem(bytes, p) == RemFrom(bytes, p, Len(bytes), 0)

\* x * y * z on usize, left to right
TimesTimes(x, y, z) ==
    LET xy == usize_mul(BytesOf(x, 8), y)
        xyz == usize_mul(xy.bytes, z)
    IN  [bytes |-> xyz.bytes, overflow |-> xy.overflow \/ xyz.overflow]

\* t * b * b % p and R * b % p on usize (R * b is R * b * 1).  A product
\* that leaves 64 bits panics in a build with overflow checks ("debug") and
\* wraps in a build without them ("release").
TimesRem(x, y, z, p, build) ==
    LET product == TimesTimes(x, y, z)
    IN  IF product.overflow /\ build = "debug" THEN "Overflow"
        ELSE <<usize_rem(product.bytes, p)>>

\* q and s with p - 1 = q * 2^s, q odd: the first loop of tonelli_shanks
RECURSIVE SplitPowersOfTwo(_, _)
SplitPowersOfTwo(q, s) ==
    IF q % 2 = 0 THEN SplitPowersOfTwo(q \div 2, s + 1) ELSE <<q, s>>

\* the second loop: the first z_value from 2 on that is no residue
RECURSIVE FindNonResidue(_, _)
FindNonResidue(z_value, p) ==
    IF upcast_modpow(z_value, (p - 1) \div 2, p) = p - 1 THEN z_value
    ELSE FindNonResidue(z_value + 1, p)

\* the inner while: i goes up from 1 while i < M and t^(2^i) is not 1
RECURSIVE FindOrder(_, _, _, _)
FindOrder(i, M, t, p) ==
    IF i < M /\ upcast_modpow(t, 2 ^ i, p) # 1
    THEN FindOrder(i + 1, M, t, p)
    ELSE i

\* the main loop.  M - i - 1 is a u32: below 0 it panics in a debug build
\* ("Underflow"); in a release build it wraps, 2usize.pow of it wraps to 0,
\* b is 1 and the turn changes nothing, for ever ("Diverges").
RECURSIVE TonelliLoop(_, _, _, _, _, _)
TonelliLoop(p, M, c, t, R, build) ==
    IF t = 0 THEN <<0>>
    ELSE IF t = 1 THEN <<R>>
    ELSE LET i == FindOrder(1, M, t, p)
         IN  IF M - i - 1 < 0
             THEN (IF build = "debug" THEN "Underflow" ELSE "Diverges")
             ELSE LET b == upcast_modpow(c, 2 ^ (M - i - 1), p)
                      next_t == TimesRem(t, b, b, p, build)
                      next_R == TimesRem(R, b, 1, p, build)
                  IN  IF next_t = "Overflow" \/ next_R = "Overflow"
                      THEN "Overflow"
                      ELSE TonelliLoop(p, i, upcast_modpow(b, 2, p),
                                       next_t[1], next_R[1], build)

\* tonelli_shanks(n, p): None, <<root>>, or how the call fails to return.
\* q, s, z_value, c, t and R are let-bound before the loop, as in the code:
\* the conjunction computes each of them once, in the code's order.
tonelli_shanks(nn, p, build) ==
    IF gcd(nn, p) # 1 \/ legendre(nn, p) = -1 THEN None
    ELSE LET qs == SplitPowersOfTwo(p - 1, 0)
             q == qs[1]
             s == qs[2]
             z_value == FindNonResidue(2, p)
             c == upcast_modpow(z_value, q, p)
             t == upcast_modpow(nn, q, p)
             R == upcast_modpow(nn, (q + 1) \div 2, p)
         IN  IF q >= 1 /\ s >= 0 /\ z_value >= 2 /\ c >= 0 /\ t >= 0 /\ R >= 0
             THEN TonelliLoop(p, s, c, t, R, build)
             ELSE None

\* small_eratosphenes from number on: candidates holds the indices set to
\* true, result the primes pushed so far.
RECURSIVE EratosthenesLoop(_, _, _, _)
EratosthenesLoop(number, upper_limit, candidates, result) ==
    IF number > upper_limit THEN result
    ELSE IF number \in candidates
         THEN EratosthenesLoop(number + 1, upper_limit, candidates, result)
    ELSE EratosthenesLoop(number + 1, upper_limit,
            candidates \cup {m \in (number * number)..upper_limit :
                                 (m - number * number) % number = 0},
            Append(result, number))

small_eratosphenes(upper_limit) == EratosthenesLoop(2, upper_limit, {}, <<>>)

\* build_factor_base: the primes that are 2 or have legendre(n, prime) = 1
RECURSIVE build_factor_base(_, _)
build_factor_base(primes, nn) ==
    IF primes = <<>> THEN <<>>
    ELSE LET prime == Head(primes)
             rest == build_factor_base(Tail(primes), nn)
         IN  IF prime = 2 \/ legendre(nn, prime) = 1
             THEN <<prime>> \o rest
             ELSE rest

\* PushDivisor that pushes a prime once and never counts it again
PushDivisorOnce(result, prime) ==
    IF result # <<>> /\ result[Len(result)][1] = prime
    THEN result
    ELSE Append(result, <<prime, 1>>)

\* result.last_mut() is (prime, d): d += 1; anything else: push (prime, 1)
PushDivisor(result, prime) ==
    IF result # <<>> /\ result[Len(result)][1] = prime
    THEN [result EXCEPT ![Len(result)] = <<prime, @[2] + 1>>]
    ELSE Append(result, <<prime, 1>>)

\* trial_divide from the k-th prime of the table on, with value cur left.
\* 0 is divisible by every prime and never becomes 1: the inner loop does
\* not end, which the model reports as "Diverges".
RECURSIVE TrialDivideLoop(_, _, _, _)
TrialDivideLoop(cur, prime_table, k, result) ==
    IF k > Len(prime_table) THEN <<cur, result>>
    ELSE IF cur = 0 THEN "Diverges"
    ELSE IF cur % prime_table[k] # 0
         THEN TrialDivideLoop(cur, prime_table, k + 1, result)
    ELSE LET pushed == PushDivisor(result, prime_table[k])
             d == cur \div prime_table[k]
         IN  IF d = 1 THEN <<d, pushed>>
             ELSE TrialDivideLoop(d, prime_table, k, pushed)

\* trial_divide(n, prime_table): None, <<DenseMultiplierMap>> or "Diverges"
trial_divide(nn, prime_table) ==
    LET out == TrialDivideLoop(nn, prime_table, 1, <<>>)
    IN  IF out = "Diverges" THEN "Diverges"
        ELSE IF out[1] = 1 THEN <<out[2]>>
        ELSE None

(***************************************************************************)
(* number_type.rs                                                          *)
(***************************************************************************)

\* NumberOps::modpow2: self^2 mod modulo through the double-width square
modpow2(self, modulo) == (self * self) % modulo

\* the integer square root (NumberOps::sqrt, BigUint::sqrt): the floor, found
\* by bisection of lo..hi; mid <= v \div mid is mid * mid <= v
RECURSIVE SqrtBetween(_, _, _)
SqrtBetween(v, lo, hi) ==
    IF lo >= hi THEN lo
    ELSE LET mid == (lo + hi + 1) \div 2
         IN  IF mid <= v \div mid THEN SqrtBetween(v, mid, hi)
             ELSE SqrtBetween(v, lo, mid - 1)

sqrt(v) == SqrtBetween(v, 0, v)

(***************************************************************************)
(* factor_building.rs                                                      *)
(***************************************************************************)

\* BigUint::bits: the number of significant bits, 0 for 0
RECURSIVE bits(_)
bits(v) == IF v = 0 THEN 0 ELSE 1 + bits(v \div 2)

\* num_integer::gcd on BigUint
euclid(x, y) == gcd(x, y)

\* test_factorization that accepts the divisor n itself
test_factorization_no_n_check(nn, a, b) ==
    LET ra == a % nn
        rb == b % nn
        hi == IF rb > ra THEN rb ELSE ra
        lo == IF rb > ra THEN ra ELSE rb
        g == euclid(nn, hi - lo)
    IN  IF bits(g) # 1 THEN <<g, nn \div g>> ELSE None

\* test_factorization without the swap of a and b
test_factorization_no_swap(nn, a, b) ==
    LET ra == a % nn
        rb == b % nn
    IN  IF ra < rb THEN "Panic"
        ELSE LET g == euclid(nn, ra - rb)
             IN  IF g # nn /\ bits(g) # 1 THEN <<g, nn \div g>> ELSE None

\* test_factorization(n, a, b): None or <<gcd, other_term>>; "Panic" is the
\* BigUint subtraction going below zero
test_factorization(nn, a, b) ==
    LET ra == a % nn
        rb == b % nn
        hi == IF rb > ra THEN rb ELSE ra
        lo == IF rb > ra THEN ra ELSE rb
    IN  IF hi < lo THEN "Panic"
        ELSE LET g == euclid(nn, hi - lo)
             IN  IF g # nn /\ bits(g) # 1 THEN <<g, nn \div g>> ELSE None

\* build_numbers that multiplies the numbers themselves into b, unsquared
RECURSIVE BuildLoopNoSquare(_, _, _, _, _)
BuildLoopNoSquare(nn, smoothies, positions, a, b) ==
    IF positions = <<>> THEN <<a, b>>
    ELSE LET number == smoothies[Head(positions) + 1].number
         IN  BuildLoopNoSquare(nn, smoothies, Tail(positions),
                               a * number, b * (number % nn))

\* the loop of build_numbers over positions (indices from 0)
RECURSIVE BuildLoop(_, _, _, _, _)
BuildLoop(nn, smoothies, positions, a, b) ==
    IF positions = <<>> THEN <<a, b>>
    ELSE LET number == smoothies[Head(positions) + 1].number
         IN  BuildLoop(nn, smoothies, Tail(positions),
                       a * number, b * modpow(number, 2, nn))

\* build_numbers(n, smoothies, positions): <<a, b>>
build_numbers(nn, smoothies, positions) ==
    LET ab == BuildLoop(nn, smoothies, positions, 1, 1)
    IN  <<ab[1], sqrt(ab[2])>>

\* find_factors_from_pivots: the first vector whose pair passes the test
RECURSIVE find_factors_from_pivots(_, _, _)
find_factors_from_pivots(nn, smoothies, sol) ==
    IF sol = <<>> THEN None
    ELSE LET ab == build_numbers(nn, smoothies, Head(sol))
             answ == test_factorization(nn, ab[1], ab[2])
         IN  IF answ # None THEN answ
             ELSE find_factors_from_pivots(nn, smoothies, Tail(sol))

(***************************************************************************)
(* sieve.rs                                                                *)
(***************************************************************************)
LOGSIEVE_BLOCK_SIZE == 60000

Max(a, b) == IF a >= b THEN a ELSE b

Min(a, b) == IF a <= b THEN a ELSE b

RECURSIVE Pow(_, _)
Pow(b, e) == IF e = 0 THEN 1 ELSE b * Pow(b, e - 1)

\* the roots of LogSieve::new for n and factor_base.  The primes of a factor
\* base are below 10_000: no product of tonelli_shanks leaves 64 bits, and
\* the two builds agree.
new_roots(nn, base) ==
    [i \in DOMAIN base |->
        LET factor == base[i]
            s1 == tonelli_shanks(nn % factor, factor, "debug")
        IN  IF s1 = None THEN None ELSE <<s1[1], factor - s1[1]>>]

\* LogSieve.block_size, as LogSieve::new computes it
block_size ==
    LET last == factor_base[Len(factor_base)]
    IN  Max(Min(LOGSIEVE_BLOCK_SIZE, last * 5), last * 2)

\* run_parallel's block_size
parallel_block_size == factor_base[Len(factor_base)] * 2

\* closest_index without the step up when the element lies below start
closest_index_no_step(start, root, prime) ==
    LET closest_element == ((start - root) \div prime) * prime + root
    IN  IF closest_element < start
        THEN start - closest_element
        ELSE closest_element - start

\* search_block: the index of the first element of the block at start that
\* is root modulo prime (start >= root, so that nothing wraps)
closest_index(start, root, prime) ==
    LET closest_element == ((start - root) \div prime) * prime + root
    IN  IF closest_element < start
        THEN closest_element + prime - start
        ELSE closest_element - start

\* how many of the two strides of prime i pass over idx
StrideHits(start, idx, i) ==
    Cardinality({k \in 1..2 :
        LET first == closest_index(start, roots[i][k], factor_base[i])
        IN  idx >= first /\ (idx - first) % factor_base[i] = 0})

\* logs[idx] after the loops of search_block.  The model keeps exp of the
\* f64 sum: adding ln p is multiplying by p.
RECURSIVE StrideLogs(_, _, _)
StrideLogs(start, idx, i) ==
    IF i > Len(factor_base) THEN 1
    ELSE (IF roots[i] = None THEN 1
          ELSE Pow(factor_base[i], StrideHits(start, idx, i)))
         * StrideLogs(start, idx, i + 1)

logs(start, idx) ==
    (IF factor_base[1] = 2 /\ idx % 2 = (IF start % 2 = 1 THEN 0 ELSE 1)
     THEN 2 ELSE 1) * StrideLogs(start, idx, 1)

\* the indices whose log reaches the threshold
Candidates(start, size) ==
    {idx \in 0..(size - 1) : logs(start, idx) >= log_treshold}

\* the second filter_map of search_block from idx on
RECURSIVE DividedFrom(_, _, _, _)
DividedFrom(start, size, idx, candidates) ==
    IF idx >= size THEN <<>>
    ELSE LET number == start + idx
             divisors == trial_divide(modpow2(number, n), factor_base)
         IN  (IF idx \in candidates /\ divisors # None
              THEN <<[number |-> number, divisors |-> divisors[1]]>>
              ELSE <<>>)
             \o DividedFrom(start, size, idx + 1, candidates)

\* search_block(start, size): the Vec of SmoothNumber as items, or diverges
\* when trial_divide does not return for one of the candidates
search_block(start, size) ==
    LET candidates == Candidates(start, size)
    IN  IF \E idx \in candidates :
               trial_divide(modpow2(start + idx, n), factor_base) = "Diverges"
        THEN [diverges |-> TRUE, items |-> <<>>]
        ELSE [diverges |-> FALSE,
              items |-> DividedFrom(start, size, 0, candidates)]

(***************************************************************************)
(* The sieves, run and run_parallel, and build_numbers on what they        *)
(* return: SpecSieve.                                                      *)
(***************************************************************************)
\* TestDivisionSieve::new / LogSieve::new on a number and the factor base
\* of a prime bound.  log_treshold comes out of f64 arithmetic that the
\* model does not follow: it is any of ln 1 .. ln MaxTreshold.  The cursor
\* of a LogSieve starts at or above every root, the case in which the
\* wrapping arithmetic of search_block does not wrap.
InitSieve ==
    /\ pc = "idle"
    /\ \E nn \in MinModulus..MaxModulus, prime_bound \in 2..MaxPrimeBound :
          /\ n = nn
          /\ factor_base = build_factor_base(small_eratosphenes(prime_bound), nn)
    /\ next_block = sqrt(n) + 1
    /\ \/ engine = "TestDivisionSieve" /\ log_treshold = 0 /\ roots = <<>>
       \/ /\ engine = "LogSieve"
          /\ log_treshold \in 1..MaxTreshold
          /\ roots = new_roots(n, factor_base)
          /\ next_block >= factor_base[Len(factor_base)]
    /\ numbers_to_find = 0
    /\ run_result = <<>>
    /\ table = <<>>
    /\ attempt = None
    /\ ratio = <<0, 1>>
    /\ built = None
    /\ answer = None
    /\ NoParallel
    /\ input = <<>> /\ rows = <<>> /\ row_labels = <<>> /\ x_labels = <<>>
    /\ prev = <<>> /\ args = <<>> /\ diag_count = 0
    /\ vectors = None /\ solution = None /\ ts_result = None
    /\ NoCall

\* sieve.run(numbers_to_find) is called
RunCall ==
    /\ pc = "idle"
    /\ Len(table) <= MaxTable
    /\ \E k \in 0..MaxFind : numbers_to_find' = k
    /\ run_result' = <<>>
    /\ pc' = "running"
    /\ UNCHANGED <<n, factor_base, engine, next_block, log_treshold, roots,
                   table, attempt, ratio, built, answer, par_vars, solver_vars,
                   ts_result, call_vars>>

\* one turn of the while loop of TestDivisionSieve::run
TestDivisionStep ==
    /\ pc = "running"
    /\ engine = "TestDivisionSieve"
    /\ numbers_to_find > 0
    /\ next_block <= MaxCursor
    /\ LET mapping == trial_divide(modpow2(next_block, n), factor_base)
       IN  IF mapping = "Diverges"
           THEN /\ pc' = "hung"
                /\ UNCHANGED <<run_result, numbers_to_find, next_block>>
           ELSE /\ pc' = pc
                /\ next_block' = next_block + 1
                /\ IF mapping # None
                   THEN /\ run_result' = Append(run_result,
                               [number |-> next_block, divisors |-> mapping[1]])
                        /\ numbers_to_find' = numbers_to_find - 1
                   ELSE UNCHANGED <<run_result, numbers_to_find>>
    /\ UNCHANGED <<n, factor_base, engine, log_treshold, roots,
                   table, attempt, ratio,
                   built, answer, par_vars, solver_vars, ts_result, call_vars>>

\* one turn of the while loop of LogSieve::run
LogSearchBlock ==
    /\ pc = "running"
    /\ engine = "LogSieve"
    /\ numbers_to_find > 0
    /\ next_block <= (IF attempt = None THEN MaxCursor ELSE MaxFactorCursor)
    /\ LET searched == search_block(next_block, block_size)
           produced_items == searched.items
       IN  IF searched.diverges
           THEN /\ pc' = "hung"
                /\ UNCHANGED <<run_result, numbers_to_find, next_block>>
           ELSE /\ pc' = pc
                /\ next_block' = next_block + block_size
                /\ numbers_to_find' = numbers_to_find - Len(produced_items)
                /\ run_result' = run_result \o produced_items
    /\ UNCHANGED <<n, factor_base, engine, log_treshold, roots,
                   table, attempt, ratio,
                   built, answer, par_vars, solver_vars, ts_result, call_vars>>

\* run returns result and the caller puts it in front of its table
RunReturnInFront ==
    /\ pc = "running"
    /\ numbers_to_find <= 0
    /\ table' = run_result \o table
    /\ pc' = IF attempt = None THEN "idle" ELSE "collected"
    /\ UNCHANGED <<n, factor_base, engine, next_block, log_treshold, roots,
                   numbers_to_find, run_result, attempt, ratio, built, answer,
                   par_vars, solver_vars, ts_result, call_vars>>

\* run leaves its loop and returns result; the caller appends it to its table
RunReturn ==
    /\ pc = "running"
    /\ numbers_to_find <= 0
    /\ table' = table \o run_result
    /\ pc' = IF attempt = None THEN "idle" ELSE "collected"
    /\ UNCHANGED <<n, factor_base, engine, next_block, log_treshold, roots,
                   numbers_to_find, run_result, attempt, ratio, built, answer,
                   par_vars, solver_vars, ts_result, call_vars>>

\* the task that the scope spawns on the block at block_start; extra records
\* that the block was not yet searched, or not yet spawned, when results first
\* was <= 0 (the work done past the wanted number of relations)
SpawnedTask(block_start) ==
    [block_start |-> block_start, items |-> <<>>, at |-> "spawned",
     extra |-> FALSE]

\* sieve.run_parallel(total_numbers) is called with THREADS = w, up to the
\* end of the for loop that spawns the first w tasks
ParallelCall ==
    /\ pc = "idle"
    /\ engine = "LogSieve"
    /\ Len(table) <= MaxTable
    /\ \E want \in 0..MaxFind, w \in 0..MaxThreads :
          /\ threads' = w
          /\ total_numbers' = want
          /\ results' = want
          /\ tasks' = [i \in 1..w |->
                [SpawnedTask(next_block + (i - 1) * parallel_block_size)
                    EXCEPT !.extra = (want <= 0)]]
          /\ par_next_block' = next_block + w * parallel_block_size
    /\ result_queue' = <<>>
    /\ status' = FALSE
    /\ dispatcher' = "waiting"
    /\ pc' = "parallel"
    /\ UNCHANGED <<n, factor_base, engine, next_block, log_treshold, roots,
                   numbers_to_find, run_result, table, attempt, ratio, built,
                   answer, solver_vars, ts_result, call_vars>>

\* what every step of a task and of the dispatcher leaves alone
ParallelFrame ==
    UNCHANGED <<pc, n, factor_base, engine, next_block, log_treshold, roots,
                numbers_to_find, run_result, table, attempt, ratio, built,
                answer, threads, total_numbers, solver_vars, ts_result,
                call_vars>>

\* a task: state.search_block(block_start, block_size)
WorkerSearch(i) ==
    /\ pc = "parallel"
    /\ tasks[i].at = "spawned"
    /\ LET searched == search_block(tasks[i].block_start, parallel_block_size)
       IN  tasks' = IF searched.diverges
                    THEN [tasks EXCEPT ![i].at = "hung"]
                    ELSE [tasks EXCEPT ![i].items = searched.items,
                                       ![i].at = "searched"]
    /\ UNCHANGED <<results, result_queue, status, dispatcher, par_next_block>>
    /\ ParallelFrame

\* a task: results.fetch_sub(items.len())
WorkerFetchSub(i) ==
    /\ pc = "parallel"
    /\ tasks[i].at = "searched"
    /\ results' = results - Len(tasks[i].items)
    /\ tasks' = [j \in DOMAIN tasks |->
          IF j = i THEN [tasks[j] EXCEPT !.at = "counted"]
          ELSE IF results > 0 /\ results' <= 0
                  /\ tasks[j].at \in {"spawned", "searched", "hung"}
               THEN [tasks[j] EXCEPT !.extra = TRUE]
               ELSE tasks[j]]
    /\ UNCHANGED <<result_queue, status, dispatcher, par_next_block>>
    /\ ParallelFrame

\* a task: result_queue.lock().unwrap().push(items)
WorkerPush(i) ==
    /\ pc = "parallel"
    /\ tasks[i].at = "counted"
    /\ result_queue' = Append(result_queue, tasks[i].items)
    /\ tasks' = [tasks EXCEPT ![i].at = "pushed"]
    /\ UNCHANGED <<results, status, dispatcher, par_next_block>>
    /\ ParallelFrame

\* a task: *done = true under the lock, notify_one, and the closure ends
WorkerNotify(i) ==
    /\ pc = "parallel"
    /\ tasks[i].at = "pushed"
    /\ status' = TRUE
    /\ tasks' = [tasks EXCEPT ![i].at = "finished"]
    /\ UNCHANGED <<results, result_queue, dispatcher, par_next_block>>
    /\ ParallelFrame

\* the dispatcher leaves cvar.wait with the flag set and clears it
DispatcherWake ==
    /\ pc = "parallel"
    /\ dispatcher = "waiting"
    /\ status
    /\ status' = FALSE
    /\ dispatcher' = "woken"
    /\ UNCHANGED <<tasks, results, result_queue, par_next_block>>
    /\ ParallelFrame

\* a dispatcher that goes back to wait without spawning a block
DispatcherLoadNoSpawn ==
    /\ pc = "parallel"
    /\ dispatcher = "woken"
    /\ dispatcher' = IF results < 0 THEN "joining" ELSE "waiting"
    /\ UNCHANGED <<tasks, par_next_block, results, result_queue, status>>
    /\ ParallelFrame

\* the dispatcher loads results: it breaks below 0 and spawns otherwise
DispatcherLoad ==
    /\ pc = "parallel"
    /\ dispatcher = "woken"
    /\ IF results < 0
       THEN /\ dispatcher' = "joining"
            /\ UNCHANGED <<tasks, par_next_block>>
       ELSE /\ par_next_block <= MaxCursor
            /\ tasks' = Append(tasks, [SpawnedTask(par_next_block)
                                          EXCEPT !.extra = (results <= 0)])
            /\ par_next_block' = par_next_block + parallel_block_size
            /\ dispatcher' = "waiting"
    /\ UNCHANGED <<results, result_queue, status>>
    /\ ParallelFrame

\* the batches of a queue, appended in order
RECURSIVE Flatten(_)
Flatten(queue) ==
    IF queue = <<>> THEN <<>> ELSE Head(queue) \o Flatten(Tail(queue))

\* run_parallel returning as soon as the closure has left its loop, without
\* the scope waiting for the tasks still running
ParallelReturnNoJoin ==
    /\ pc = "parallel"
    /\ dispatcher = "joining"
    /\ next_block' = par_next_block
    /\ table' = table \o Flatten(result_queue)
    /\ pc' = "idle"
    /\ threads' = 0 /\ total_numbers' = 0 /\ tasks' = <<>> /\ results' = 0
    /\ result_queue' = <<>>
    /\ status' = FALSE /\ dispatcher' = None /\ par_next_block' = 0
    /\ UNCHANGED <<n, factor_base, engine, log_treshold, roots, numbers_to_find,
                   run_result, attempt, ratio, built, answer, solver_vars,
                   ts_result, call_vars>>

\* the scope ends once every task has ended; run_parallel stores the cursor
\* and returns the batches of the queue, which the caller appends to its table
ParallelReturn ==
    /\ pc = "parallel"
    /\ dispatcher = "joining"
    /\ \A i \in DOMAIN tasks : tasks[i].at = "finished"
    /\ next_block' = par_next_block
    /\ table' = table \o Flatten(result_queue)
    /\ pc' = "idle"
    /\ threads' = 0 /\ total_numbers' = 0 /\ tasks' = <<>> /\ results' = 0
    /\ result_queue' = <<>>
    /\ status' = FALSE /\ dispatcher' = None /\ par_next_block' = 0
    /\ UNCHANGED <<n, factor_base, engine, log_treshold, roots, numbers_to_find,
                   run_result, attempt, ratio, built, answer, solver_vars,
                   ts_result, call_vars>>

\* the exponent of prime in the divisors of a relation
ExponentOf(divisors, prime) ==
    IF \E i \in DOMAIN divisors : divisors[i][1] = prime
    THEN divisors[CHOOSE i \in DOMAIN divisors : divisors[i][1] = prime][2]
    ELSE 0

RECURSIVE SumExponents(_, _, _)
SumExponents(smoothies, S, prime) ==
    IF S = {} THEN 0
    ELSE LET i == CHOOSE j \in S : TRUE
         IN  ExponentOf(smoothies[i].divisors, prime)
             + SumExponents(smoothies, S \ {i}, prime)

\* S, a set of table positions, is a dependency over GF(2)
IsDependency(smoothies, S) ==
    \A i \in DOMAIN factor_base :
        SumExponents(smoothies, S, factor_base[i]) % 2 = 0

\* the members of a set of numbers, ascending
RECURSIVE Ascending(_)
Ascending(S) ==
    IF S = {} THEN <<>>
    ELSE LET m == CHOOSE x \in S : \A y \in S : x <= y
         IN  <<m>> \o Ascending(S \ {m})

\* build_numbers(n, table, positions) on a dependency among the relations
BuildNumbers ==
    /\ pc = "idle"
    /\ \E S \in SUBSET DOMAIN table :
          /\ S # {}
          /\ Cardinality(S) <= MaxPositions
          /\ IsDependency(table, S)
          /\ LET positions == [i \in DOMAIN Ascending(S) |-> Ascending(S)[i] - 1]
             IN  built' = <<[positions |-> positions,
                             product |-> BuildLoop(n, table, positions, 1, 1)[2],
                             numbers |-> build_numbers(n, table, positions)]>>
    /\ pc' = "built"
    /\ UNCHANGED <<n, factor_base, engine, next_block, log_treshold, roots,
                   numbers_to_find, run_result, table, attempt, ratio, answer,
                   par_vars, solver_vars, ts_result, call_vars>>

NextSieve ==
    \/ RunCall
    \/ TestDivisionStep
    \/ LogSearchBlock
    \/ RunReturn
    \/ ParallelCall
    \/ \E i \in DOMAIN tasks : WorkerSearch(i)
    \/ \E i \in DOMAIN tasks : WorkerFetchSub(i)
    \/ \E i \in DOMAIN tasks : WorkerPush(i)
    \/ \E i \in DOMAIN tasks : WorkerNotify(i)
    \/ DispatcherWake
    \/ DispatcherLoad
    \/ ParallelReturn
    \/ BuildNumbers

SpecSieve == InitSieve /\ [][NextSieve]_vars

(***************************************************************************)
(* Claims on the sieves and on build_numbers, checked on SpecSieve.        *)
(***************************************************************************)
\* the product of p^e over a DenseMultiplierMap
RECURSIVE ProductOf(_)
ProductOf(divisors) ==
    IF divisors = <<>> THEN 1
    ELSE Pow(Head(divisors)[1], Head(divisors)[2]) * ProductOf(Tail(divisors))

\* what C2 says of one relation
RelationHolds(rel) ==
    LET F == rel.divisors
    IN  /\ \A i \in DOMAIN F : F[i][1] \in Range(factor_base)
        /\ \A i \in 1..(Len(F) - 1) : F[i][1] < F[i + 1][1]
        /\ \A i \in DOMAIN F : F[i][2] >= 1
        /\ ProductOf(F) = (rel.number * rel.number) % n

\* every relation that a run has found, returned or queued so far
EmittedRelations ==
    Range(table) \cup Range(run_result) \cup Range(Flatten(result_queue))

\* C2: every relation (x, F) that TestDivisionSieve::run, LogSieve::run or
\* LogSieve::run_parallel returns has its primes in the factor base, distinct
\* and ascending, every exponent at least 1, and the product of p^e over F
\* equal to x^2 mod N.
C2_RelationsFactorExactly == \A rel \in EmittedRelations : RelationHolds(rel)

\* a run has returned to a table, and a run_parallel on the same sieve is
\* about to return a relation with two primes, one of them squared
C2_Witness ==
    /\ pc = "parallel"
    /\ dispatcher = "joining"
    /\ \A i \in DOMAIN tasks : tasks[i].at = "finished"
    /\ Len(tasks) >= 3
    /\ table # <<>>
    /\ \E rel \in Range(Flatten(result_queue)) :
          /\ Len(rel.divisors) >= 2
          /\ \E i \in DOMAIN rel.divisors : rel.divisors[i][2] >= 2

\* C4: on an index set that is a dependency over GF(2), build_numbers
\* returns (a, b) with a^2 = b^2 mod N, and the product of the x_i^2 mod N
\* that it takes the root of is a perfect square.
C4_BuildNumbersCongruence ==
    built # None =>
        LET a == built[1].numbers[1] % n
            b == built[1].numbers[2] % n
        IN  /\ (a * a) % n = (b * b) % n
            /\ built[1].numbers[2] * built[1].numbers[2] = built[1].product

\* build_numbers has run on three relations, none of them a square alone
C4_Witness ==
    /\ built # None
    /\ Len(built[1].positions) = 3
    /\ \A i \in DOMAIN built[1].positions :
          ~IsDependency(table, {built[1].positions[i] + 1})
    /\ built[1].numbers[1] % n # built[1].numbers[2] % n

(***************************************************************************)
(* factorization.rs: run_factor, as run_factorization_generic calls it:    *)
(* SpecFactor.                                                             *)
(***************************************************************************)
NUM_ATTEMPTS == 5

\* run_factor(n, prime_bound) is entered.  prime_bound stands for
\* compute_b_limit(n).min(10_000), which comes out of f64 arithmetic.
InitFactor ==
    /\ pc = "run_factor"
    /\ n \in MinModulus..MaxModulus
    /\ \E prime_bound \in 2..MaxPrimeBound : args = <<n, prime_bound>>
    /\ factor_base = <<>>
    /\ engine = None
    /\ next_block = 0
    /\ log_treshold = 0
    /\ roots = <<>>
    /\ numbers_to_find = 0
    /\ run_result = <<>>
    /\ table = <<>>
    /\ attempt = <<0>>
    /\ ratio = <<105, 100>>
    /\ built = None
    /\ answer = None
    /\ NoParallel
    /\ input = <<>> /\ rows = <<>> /\ row_labels = <<>> /\ x_labels = <<>>
    /\ prev = <<>> /\ diag_count = 0
    /\ vectors = None /\ solution = None /\ ts_result = None
    /\ NoCall

\* run_factor down to its loop: the factor base, the return on a base of
\* fewer than two primes, LogSieve::new (see InitSieve on log_treshold)
BuildFactorBase ==
    /\ pc = "run_factor"
    /\ LET base == build_factor_base(small_eratosphenes(args[2]), n)
       IN  /\ factor_base' = base
           /\ IF Len(base) < 2
              THEN /\ pc' = "done"
                   /\ UNCHANGED <<engine, next_block, log_treshold, roots>>
              ELSE /\ pc' = "loop"
                   /\ engine' = "LogSieve"
                   /\ next_block' = sqrt(n) + 1
                   /\ next_block' >= base[Len(base)]
                   /\ log_treshold' \in 1..MaxTreshold
                   /\ roots' = new_roots(n, base)
    /\ UNCHANGED <<n, numbers_to_find, run_result, table, attempt, ratio, built,
                   answer, par_vars, solver_vars, ts_result, call_vars>>

\* (factor_base.len() as f64 * ratio).ceil() on the ratio as a fraction
CeilOfProduct(len, r) == (len * r[1] + r[2] - 1) \div r[2]

sieving_limit ==
    Max(CeilOfProduct(Len(factor_base), ratio), Len(factor_base) + 5)

\* a turn that asks the sieve for as many relations as the base has primes
AttemptStartShort ==
    /\ pc = "loop"
    /\ attempt[1] < NUM_ATTEMPTS
    /\ numbers_to_find' = Max(Len(factor_base) - Len(table), 0)
    /\ run_result' = <<>>
    /\ pc' = "running"
    /\ UNCHANGED <<n, factor_base, engine, next_block, log_treshold, roots,
                   table, attempt, ratio, built, answer, par_vars, solver_vars,
                   ts_result, call_vars>>

\* the head of a turn of the loop: sieve.run(sieving_limit - table.len())
AttemptStart ==
    /\ pc = "loop"
    /\ attempt[1] < NUM_ATTEMPTS
    /\ numbers_to_find' = Max(sieving_limit - Len(table), 0)
    /\ run_result' = <<>>
    /\ pc' = "running"
    /\ UNCHANGED <<n, factor_base, engine, next_block, log_treshold, roots,
                   table, attempt, ratio, built, answer, par_vars, solver_vars,
                   ts_result, call_vars>>

\* CongruenceSystem::with_labels(&rows, factor_base, row_labels).transpose()
BuildSystem ==
    /\ pc = "collected"
    /\ LET labels == Iota(Len(table))
           count_map == [i \in DOMAIN table |-> table[i].divisors]
       IN  /\ rows' = transpose_rows(with_labels_rows(count_map), labels,
                                     factor_base)
           /\ row_labels' = factor_base
           /\ x_labels' = labels
    /\ pc' = "system"
    /\ UNCHANGED <<input, prev, args, diag_count, vectors, solution,
                   sieve_vars, ts_result, call_vars>>

\* ratio *= 1.5 under 50 primes, ratio += 0.05 otherwise
NextRatio ==
    IF Len(factor_base) < 50
    THEN <<ratio[1] * 3, ratio[2] * 2>>
    ELSE <<ratio[1] * 100 + 5 * ratio[2], ratio[2] * 100>>

\* pivot_search on the system, then the tail of the turn
PivotSearch ==
    /\ pc = "system"
    /\ IF Len(x_labels) > Len(rows)
       THEN LET pivoted == fast_pivot(rows, x_labels)
                answ == find_factors_from_pivots(n, table, pivoted.result)
            IN  /\ rows' = pivoted.rows
                /\ vectors' = pivoted.result
                /\ IF pivoted.panic
                   THEN /\ pc' = "panic"
                        /\ UNCHANGED <<answer, ratio, attempt>>
                   ELSE IF answ # None
                   THEN /\ pc' = "done"
                        /\ answer' = answ
                        /\ UNCHANGED <<ratio, attempt>>
                   ELSE /\ pc' = "loop"
                        /\ ratio' = NextRatio
                        /\ attempt' = <<attempt[1] + 1>>
                        /\ UNCHANGED answer
       ELSE /\ pc' = "panic"
            /\ UNCHANGED <<rows, vectors, answer, ratio, attempt>>
    /\ UNCHANGED <<n, factor_base, engine, next_block, log_treshold, roots,
                   numbers_to_find, run_result, table, built, par_vars, input,
                   row_labels, x_labels, prev, args, diag_count, solution,
                   ts_result, call_vars>>

\* the loop has run NUM_ATTEMPTS times: run_factor returns None
GiveUp ==
    /\ pc = "loop"
    /\ attempt[1] = NUM_ATTEMPTS
    /\ pc' = "done"
    /\ UNCHANGED <<solver_vars, sieve_vars, ts_result, call_vars>>

NextFactor ==
    \/ BuildFactorBase
    \/ AttemptStart
    \/ LogSearchBlock
    \/ RunReturn
    \/ BuildSystem
    \/ PivotSearch
    \/ GiveUp

SpecFactor == InitFactor /\ [][NextFactor]_vars

\* C1: when factorize succeeds through the quadratic sieve it returns exactly
\* two integers a and b with a * b = N, 1 < a < N and 1 < b < N.
C1_FactorsAreProper ==
    (pc = "done" /\ answer # None) =>
        /\ Len(answer) = 2
        /\ answer[1] * answer[2] = n
        /\ 1 < answer[1] /\ answer[1] < n
        /\ 1 < answer[2] /\ answer[2] < n

\* run_factor has returned the factors that the first vector of fast_pivot
\* gave, a vector of two relations or more
C1_Witness ==
    /\ pc = "done"
    /\ answer # None
    /\ Len(table) > Len(factor_base)
    /\ Len(vectors[1]) >= 2
    /\ answer[1] # answer[2]

(***************************************************************************)
(* tonelli_shanks on the odd primes up to MaxPrime, and on the primes of    *)
(* MinWidePrime..MaxWidePrime, whose cubes leave 64 bits: SpecNumbers.     *)
(***************************************************************************)

IsPrime(p) == p >= 2 /\ \A d \in 2..sqrt(p) : p % d # 0

OddPrimes == {p \in 3..MaxPrime : IsPrime(p)}

WidePrimes == {p \in MinWidePrime..MaxWidePrime : IsPrime(p)}

InitNumbers ==
    /\ pc = "call"
    /\ \/ \E nn \in 0..MaxN : \E p \in OddPrimes : args = <<nn, p>>
       \/ \E nn \in 0..MaxWideN : \E p \in WidePrimes : args = <<nn, p>>
    /\ input = <<>> /\ rows = <<>> /\ row_labels = <<>> /\ x_labels = <<>>
    /\ prev = <<>> /\ diag_count = 0 /\ vectors = <<>> /\ solution = None
    /\ NoSieve
    /\ ts_result = None
    /\ NoCall

\* tonelli_shanks(n, p) in a build with or without overflow checks
TonelliShanks ==
    /\ pc = "call"
    /\ \E build \in {"debug", "release"} :
          ts_result' = tonelli_shanks(args[1], args[2], build)
    /\ pc' = "returned"
    /\ UNCHANGED <<solver_vars, sieve_vars, call_vars>>

NextNumbers == TonelliShanks

SpecNumbers == InitNumbers /\ [][NextNumbers]_vars

\* nn is a nonzero square mod p, of a root up to MaxN
IsResidue(nn, p) ==
    /\ nn % p # 0
    /\ \E x \in 1..Min(p - 1, MaxN) : MulMod(x, x, p) = nn % p

\* the call returned Some(r)
ReturnedRoot ==
    /\ ts_result # None
    /\ ts_result # "Underflow"
    /\ ts_result # "Overflow"
    /\ ts_result # "Diverges"

\* C5: for an odd prime p, a root tonelli_shanks(n, p) returns squares to n
\* mod p, every nonzero quadratic residue n gets a root, and the exponent
\* M - i - 1 never goes below zero.
C5_TonelliShanksRoot ==
    pc = "returned" =>
        LET nn == args[1]
            p == args[2]
        IN  /\ ts_result # "Underflow"
            /\ ReturnedRoot => MulMod(ts_result[1], ts_result[1], p) = nn % p
            /\ IsResidue(nn, p) => ReturnedRoot

\* the same on the primes up to MaxPrime
C5_OnSmallPrimes == args[2] <= MaxPrime => C5_TonelliShanksRoot

\* C22: tonelli_shanks(n, p) returns Some(0) when n is 0 (n = 0 mod p).
C22_ZeroHasRootZero ==
    (pc = "returned" /\ args[1] % args[2] = 0) =>
        (ts_result # None /\ ts_result[1] = 0)

\* what does hold: the call returns None then, in either build
C22_ZeroIsAbsent ==
    (pc = "returned" /\ args[1] % args[2] = 0) => ts_result = None

\* tonelli_shanks(0, 13) has returned None
C22_AbsentState ==
    /\ pc = "returned"
    /\ args = <<0, 13>>
    /\ ts_result = None

(***************************************************************************)
(* factor_building.rs: increase and the loop of find_factor_exhaustive:    *)
(* SpecExhaustive.                                                         *)
(***************************************************************************)
\* is_zero(vec) of factor_building.rs
is_zero_vec(vec) == \A i \in DOMAIN vec : ~vec[i]

\* increase that drops the carry after the first digit
RECURSIVE IncreaseNoCarry(_, _, _)
IncreaseNoCarry(vec, k, carry) ==
    IF k > Len(vec) THEN vec
    ELSE IncreaseNoCarry([vec EXCEPT ![k] = (vec[k] # carry)], k + 1, FALSE)

\* the for loop of increase from digit k on
RECURSIVE IncreaseFrom(_, _, _)
IncreaseFrom(vec, k, carry) ==
    IF k > Len(vec) THEN vec
    ELSE LET new_carry == vec[k] /\ carry
         IN  IncreaseFrom([vec EXCEPT ![k] = (vec[k] # carry)], k + 1,
                          new_carry)

increase(vec) == IncreaseFrom(vec, 1, TRUE)

BoolVectors(len) == [1..len -> BOOLEAN]

\* Either increase is called on some vector, or find_factor_exhaustive has
\* passed search_lonelies with a solution of up to MaxFree free variables.
InitExhaustive ==
    /\ \E len \in 0..MaxFree :
          \/ pc = "increase" /\ free_mapping \in BoolVectors(len)
          \/ pc = "exhaustive" /\ free_mapping = [i \in 1..len |-> FALSE]
    /\ tried = <<>>
    /\ found = None
    /\ substituted = None
    /\ number_repr = <<>>
    /\ outcome = None
    /\ call = None
    /\ returned = None
    /\ input = <<>> /\ rows = <<>> /\ row_labels = <<>> /\ x_labels = <<>>
    /\ prev = <<>> /\ args = <<>> /\ diag_count = 0
    /\ vectors = <<>> /\ solution = None
    /\ NoSieve
    /\ ts_result = None

\* increase(&mut vec); tried keeps the vector as it was
Increase ==
    /\ pc = "increase"
    /\ tried' = <<free_mapping>>
    /\ free_mapping' = increase(free_mapping)
    /\ pc' = "increased"
    /\ UNCHANGED <<pure_vars, factorize_vars, found, substituted, solver_vars, sieve_vars, ts_result>>

\* no free variable: return None; else the increase before the while loop
ExhaustiveStart ==
    /\ pc = "exhaustive"
    /\ IF free_mapping = <<>>
       THEN /\ pc' = "returned"
            /\ found' = "Nothing"
            /\ UNCHANGED free_mapping
       ELSE /\ pc' = "loop"
            /\ free_mapping' = increase(free_mapping)
            /\ UNCHANGED found
    /\ UNCHANGED <<pure_vars, factorize_vars, tried, substituted, solver_vars, sieve_vars, ts_result>>

\* one turn of the while loop.  Whether attempt_factorization finds a
\* factor depends on the relations: either outcome is taken.
ExhaustiveStep ==
    /\ pc = "loop"
    /\ ~is_zero_vec(free_mapping)
    /\ tried' = Append(tried, free_mapping)
    /\ \/ /\ pc' = "returned"
          /\ found' = "Some"
          /\ UNCHANGED free_mapping
       \/ /\ pc' = "loop"
          /\ free_mapping' = increase(free_mapping)
          /\ UNCHANGED found
    /\ UNCHANGED <<pure_vars, factorize_vars, substituted, solver_vars, sieve_vars, ts_result>>

\* the vector is all false again: the loop ends and None is returned
ExhaustiveEnd ==
    /\ pc = "loop"
    /\ is_zero_vec(free_mapping)
    /\ pc' = "returned"
    /\ found' = "Nothing"
    /\ UNCHANGED <<pure_vars, factorize_vars, free_mapping, tried, substituted, solver_vars, sieve_vars,
                   ts_result>>

NextExhaustive ==
    \/ Increase
    \/ ExhaustiveStart
    \/ ExhaustiveStep
    \/ ExhaustiveEnd

\* a call that is under way goes on: nothing in the loop waits on anything
SpecExhaustive ==
    InitExhaustive /\ [][NextExhaustive]_vars /\ WF_vars(NextExhaustive)

\* the number a vector stands for, least significant digit first
RECURSIVE ValueFrom(_, _)
ValueFrom(vec, k) ==
    IF k > Len(vec) THEN 0
    ELSE (IF vec[k] THEN 1 ELSE 0) + 2 * ValueFrom(vec, k + 1)

ValueOf(vec) == ValueFrom(vec, 1)

\* increase is the increment modulo 2^n
IncreaseIsIncrement ==
    pc = "increased" =>
        /\ Len(free_mapping) = Len(tried[1])
        /\ ValueOf(free_mapping) = (ValueOf(tried[1]) + 1) % (2 ^ Len(tried[1]))

\* the loop hands out nonzero vectors, none of them twice, counting up
\* from 1; when it ends without a factor it has handed out all 2^n - 1
EachTriedOnce ==
    pc \in {"exhaustive", "loop", "returned"} =>
        /\ \A i \in DOMAIN tried :
              Len(tried[i]) = Len(free_mapping) /\ ValueOf(tried[i]) = i
        /\ (pc = "returned" /\ found = "Nothing") =>
              Len(tried) = 2 ^ Len(free_mapping) - 1

\* C13: increase is the little-endian binary increment modulo 2^n, and the
\* exhaustive loop tries each of the 2^n - 1 nonzero assignments exactly
\* once and then terminates, unless a candidate yields a factor first.
C13_ExhaustiveSearch ==
    /\ [](IncreaseIsIncrement /\ EachTriedOnce)
    /\ <>(pc \in {"increased", "returned"})

C13_Witness ==
    /\ pc = "returned"
    /\ found = "Nothing"
    /\ Len(free_mapping) = 4
    /\ Len(tried) = 15
    /\ tried[7] = <<TRUE, TRUE, TRUE, FALSE>>
    /\ tried[8] = <<FALSE, FALSE, FALSE, TRUE>>

(***************************************************************************)
(* factorize (factorization.rs): the entry point.  number_repr is the      *)
(* argument string as the sequence of its characters.  The result is the   *)
(* record [path, ok, value, err]: the branch taken, whether Ok or Err was   *)
(* returned, the factors of Ok and the message of Err.                      *)
(***************************************************************************)

\* the longest strings taken over the whole alphabet
MaxDigits == 3

Digits == <<"0", "1", "2", "3", "4", "5", "6", "7", "8", "9">>

\* characters that are no decimal digit
OtherChars == {"a", "-"}

IsDigit(c) == \E d \in 1..10 : Digits[d] = c

DigitValue(c) == (CHOOSE d \in 1..10 : Digits[d] = c) - 1

RECURSIVE ParseDigits(_, _, _)
ParseDigits(s, k, acc) ==
    IF k > Len(s) THEN acc
    ELSE ParseDigits(s, k + 1, acc * 10 + DigitValue(s[k]))

\* BigUint::from_str(&number_repr).map_err(|e| e.to_string())
from_str(s) ==
    IF Len(s) = 0
    THEN [ok |-> FALSE, value |-> 0,
          err |-> "cannot parse integer from empty string"]
    ELSE IF \E k \in 1..Len(s) : ~IsDigit(s[k])
    THEN [ok |-> FALSE, value |-> 0, err |-> "invalid digit found in string"]
    ELSE [ok |-> TRUE, value |-> ParseDigits(s, 1, 0), err |-> ""]

ParseErrors ==
    {"cannot parse integer from empty string", "invalid digit found in string"}

\* n.to_bytes_be().len(): zero is the single byte 0
RECURSIVE to_bytes_be_len(_)
to_bytes_be_len(v) == IF v < 256 THEN 1 ELSE 1 + to_bytes_be_len(v \div 256)

\* while to_factor % i == 0 { divisors.push(i); to_factor /= i; }
RECURSIVE DivideOut(_, _, _)
DivideOut(to_factor, i, divisors) ==
    IF to_factor % i = 0
    THEN DivideOut(to_factor \div i, i, Append(divisors, i))
    ELSE <<to_factor, divisors>>

\* The turns i = lo, lo + 1, ..., hi - 1 of the for loop, in this order, on
\* st = <<to_factor, divisors>>; the range is walked by halves.  Once
\* to_factor is 1 no later i divides it: the remaining turns push nothing.
RECURSIVE TrialLoop(_, _, _)
TrialLoop(lo, hi, st) ==
    IF lo >= hi \/ st[1] = 1 THEN st
    ELSE IF hi = lo + 1 THEN DivideOut(st[1], lo, st[2])
    ELSE LET mid == (lo + hi) \div 2
             first == TrialLoop(lo, mid, st)
         IN  IF first[1] >= 1 THEN TrialLoop(mid, hi, first) ELSE first

\* trial_divide with the loop for i in 2..=number
factorization_trial_divide_inclusive(number) ==
    LET divisors == TrialLoop(2, number + 1, <<number, <<>>>>)[2]
    IN  IF divisors = <<>>
        THEN [path |-> "trial_divide", ok |-> FALSE, value |-> <<>>,
              err |-> "number is prime (tested all divisors up to n)"]
        ELSE [path |-> "trial_divide", ok |-> TRUE, value |-> divisors,
              err |-> ""]

\* trial_divide of factorization.rs (numbers.rs has a trial_divide of its own)
factorization_trial_divide(number) ==
    LET divisors == TrialLoop(2, number, <<number, <<>>>>)[2]
    IN  IF divisors = <<>>
        THEN [path |-> "trial_divide", ok |-> FALSE, value |-> <<>>,
              err |-> "number is prime (tested all divisors up to n)"]
        ELSE [path |-> "trial_divide", ok |-> TRUE, value |-> divisors,
              err |-> ""]

\* What run_factor can return for n: None (written <<>> here), or the pair
\* test_factorization builds, (gcd, n / gcd) with gcd a divisor of n other
\* than 1 and n.
run_factor_returns(nn) ==
    LET low == {a \in 2..46340 : a * a <= nn /\ nn % a = 0}
    IN  {<<>>} \cup {<<a, nn \div a>> : a \in low}
               \cup {<<nn \div a, a>> : a \in low}

\* run_factorization_generic::<LIMBS>(bytes), given what run_factor returned
run_factorization_generic(factorization) ==
    IF factorization = <<>>
    THEN [path |-> "sieve", ok |-> FALSE, value |-> <<>>,
          err |-> "could not factorize"]
    ELSE [path |-> "sieve", ok |-> TRUE, value |-> factorization, err |-> ""]

\* factorize with trial division for the numbers of a single byte only
factorize_dispatch_one_byte(s) ==
    LET parsed == from_str(s)
        len == to_bytes_be_len(parsed.value)
    IN  IF ~parsed.ok
        THEN [path |-> "parse", ok |-> FALSE, value |-> <<>>,
              err |-> parsed.err]
        ELSE IF len >= 64
        THEN [path |-> "too_big", ok |-> FALSE, value |-> <<>>,
              err |-> "number is too big"]
        ELSE IF len < 2
        THEN factorization_trial_divide(parsed.value)
        ELSE [path |-> "sieve", ok |-> FALSE, value |-> <<>>, err |-> ""]

\* factorize up to its dispatch on bytes.len(): the result, or "sieve" when
\* run_factorization_generic is called
factorize_dispatch(s) ==
    LET parsed == from_str(s)
        len == to_bytes_be_len(parsed.value)
    IN  IF ~parsed.ok
        THEN [path |-> "parse", ok |-> FALSE, value |-> <<>>,
              err |-> parsed.err]
        ELSE IF len >= 64
        THEN [path |-> "too_big", ok |-> FALSE, value |-> <<>>,
              err |-> "number is too big"]
        ELSE IF len < 4
        THEN factorization_trial_divide(parsed.value)
        ELSE [path |-> "sieve", ok |-> FALSE, value |-> <<>>, err |-> ""]

Chars == {Digits[d] : d \in 1..10} \cup OtherChars

\* the inputs named one by one: 8051, and the numbers around 2^24 and 2^31
NamedInputs ==
    { <<"8", "0", "5", "1">>,
      <<"1", "6", "7", "7", "7", "2", "1", "5">>,
      <<"1", "6", "7", "7", "7", "2", "1", "6">>,
      <<"1", "6", "7", "7", "7", "2", "1", "7">>,
      <<"2", "1", "4", "7", "4", "8", "3", "6", "4", "7">> }

InitFactorize ==
    /\ pc = "factorize"
    /\ number_repr \in NamedInputs
                       \cup UNION {[1..len -> Chars] : len \in 0..MaxDigits}
    /\ outcome = None
    /\ call = None
    /\ returned = None
    /\ substituted = None
    /\ free_mapping = <<>>
    /\ tried = <<>>
    /\ found = None
    /\ ts_result = None
    /\ NoSieve
    /\ input = <<>> /\ rows = <<>> /\ row_labels = <<>> /\ x_labels = <<>>
    /\ prev = <<>> /\ args = <<>> /\ diag_count = 0 /\ vectors = <<>>
    /\ solution = None

\* factorize(number_repr)
Factorize ==
    /\ pc = "factorize"
    /\ LET direct == factorize_dispatch(number_repr)
       IN  IF direct.path = "sieve"
           THEN \E factorization \in run_factor_returns(from_str(number_repr).value) :
                   outcome' = run_factorization_generic(factorization)
           ELSE outcome' = direct
    /\ pc' = "factorized"
    /\ UNCHANGED <<number_repr, substituted, free_mapping, tried, found,
                   pure_vars>>
    /\ UNCHANGED <<solver_vars, sieve_vars, ts_result>>

NextFactorize == Factorize

SpecFactorize == InitFactorize /\ [][NextFactorize]_vars

\* The claims about factorize

IsPrimeNumber(v) ==
    /\ v >= 2
    /\ \A a \in 2..46340 : a >= v \/ a * a > v \/ v % a # 0

RECURSIVE ListProduct(_)
ListProduct(s) == IF s = <<>> THEN 1 ELSE Head(s) * ListProduct(Tail(s))

\* a nondecreasing list of primes whose product is v
IsPrimeFactorization(s, v) ==
    /\ \A k \in 1..Len(s) : IsPrimeNumber(s[k])
    /\ \A k \in 1..(Len(s) - 1) : s[k] <= s[k + 1]
    /\ ListProduct(s) = v

\* C14: every N below 2^32 (every N the model can hold is) goes to trial
\* division, not to the sieve, and a composite N comes back as its full prime
\* factorization: nondecreasing primes whose product is N.
C14_SmallByTrialDivision ==
    (pc = "factorized" /\ from_str(number_repr).ok) =>
        LET v == from_str(number_repr).value
        IN  /\ outcome.path = "trial_divide"
            /\ (v >= 2 /\ ~IsPrimeNumber(v)) =>
                   outcome.ok /\ IsPrimeFactorization(outcome.value, v)

\* what does hold: the same for the numbers of fewer than 4 bytes
C14_BelowThreeBytes ==
    (pc = "factorized" /\ from_str(number_repr).ok
        /\ from_str(number_repr).value < 16777216) =>
        LET v == from_str(number_repr).value
        IN  /\ outcome.path = "trial_divide"
            /\ (v >= 2 /\ ~IsPrimeNumber(v)) =>
                   outcome.ok /\ IsPrimeFactorization(outcome.value, v)

\* 2^24 + 1 = 97 * 257 * 673 went to the sieve and came back as two factors
C14_SieveState ==
    /\ pc = "factorized"
    /\ number_repr = <<"1", "6", "7", "7", "7", "2", "1", "7">>
    /\ outcome.path = "sieve"
    /\ outcome.value = <<97, 172961>>

\* C15: for N = 0, N = 1 and a prime N factorize returns an error, never a
\* success, and the message is none of those a string that is no decimal
\* number gets.
C15_UnfactorableIsError ==
    (pc = "factorized" /\ from_str(number_repr).ok) =>
        LET v == from_str(number_repr).value
        IN  (v \in {0, 1} \/ IsPrimeNumber(v)) =>
                /\ ~outcome.ok
                /\ outcome.value = <<>>
                /\ outcome.err \notin ParseErrors

\* 0, and a prime, were answered, and so was a string with a bad character
C15_Witness ==
    /\ pc = "factorized"
    /\ \/ number_repr = <<"9", "7">>
       \/ number_repr = <<"0">>
    /\ outcome.err = "number is prime (tested all divisors up to n)"

\* C16 as the code has it: factorize("8051") is answered by trial division,
\* with the factors 83 and 97.
C16_Factorize8051 ==
    (pc = "factorized" /\ number_repr = <<"8", "0", "5", "1">>) =>
        /\ outcome.path = "trial_divide"
        /\ outcome.ok
        /\ outcome.value = <<83, 97>>

\* C16 as stated: factorize("8051") takes the quadratic-sieve path, not the
\* trial division, and returns 83 and 97.
C16_SievePath8051 ==
    (pc = "factorized" /\ number_repr = <<"8", "0", "5", "1">>) =>
        /\ outcome.path = "sieve"
        /\ outcome.ok
        /\ Range(outcome.value) = {83, 97}

C16_Witness ==
    /\ pc = "factorized"
    /\ number_repr = <<"8", "0", "5", "1">>
    /\ outcome.ok
    /\ Range(outcome.value) = {83, 97}

\* The claims about run_parallel

\* C17: whenever the dispatcher, woken up, reads a deficit counter that is
\* <= 0, it spawns no further block and leaves its loop.
C17_DispatcherStopsAtZero ==
    [][(pc = "parallel" /\ dispatcher = "woken" /\ dispatcher' # "woken"
            /\ results <= 0)
        => /\ dispatcher' = "joining"
           /\ Len(tasks') = Len(tasks)
           /\ par_next_block' = par_next_block]_vars

\* what does hold: the same for a counter below 0
C17_DispatcherStopsBelowZero ==
    [][(pc = "parallel" /\ dispatcher = "woken" /\ dispatcher' # "woken"
            /\ results < 0)
        => /\ dispatcher' = "joining"
           /\ Len(tasks') = Len(tasks)
           /\ par_next_block' = par_next_block]_vars

\* one worker: its block brought the counter from above 0 to exactly 0, and
\* the dispatcher has spawned a second block
C17_SpawnedAtZero ==
    /\ pc = "parallel"
    /\ threads = 1
    /\ Len(tasks) = 2
    /\ tasks[1].at = "finished"
    /\ tasks[1].items # <<>>
    /\ tasks[2].at = "spawned"
    /\ results = 0

\* run_parallel alone, on a LogSieve as LogSieve::new leaves it
InitParallel == InitSieve /\ engine = "LogSieve"

\* the steps of the tasks and of the scope closure once run_parallel is called
ParallelStep ==
    \/ \E i \in DOMAIN tasks : WorkerSearch(i)
    \/ \E i \in DOMAIN tasks : WorkerFetchSub(i)
    \/ \E i \in DOMAIN tasks : WorkerPush(i)
    \/ \E i \in DOMAIN tasks : WorkerNotify(i)
    \/ DispatcherWake
    \/ DispatcherLoad
    \/ ParallelReturn

NextParallel == ParallelCall \/ ParallelStep

\* Fair scheduling: a thread of the pool that can take a step takes one.  A
\* call advances every task and the closure monotonically, so fairness of the
\* steps taken together is all a run to completion needs.
SpecParallel ==
    InitParallel /\ [][NextParallel]_vars /\ WF_vars(ParallelStep)

\* Blocks stopped yielding relations: a task is held by a block that never
\* returns (x^2 = 0 mod n), or the cursor has left the range the search may
\* spawn blocks in.
BlocksRanOut ==
    \/ \E i \in DOMAIN tasks : tasks[i].at = "hung"
    \/ par_next_block > MaxCursor

\* C18: under fair scheduling, and as long as blocks keep yielding relations,
\* run_parallel returns, whatever the worker count THREADS sets, 0 included.
C18_RunParallelTerminates ==
    (pc = "parallel") ~> (pc = "idle" \/ BlocksRanOut)

\* what does hold: the same with at least one worker
C18_TerminatesWithWorkers ==
    (pc = "parallel" /\ threads >= 1) ~> (pc = "idle" \/ BlocksRanOut)

\* THREADS = 0: no task was spawned, the closure waits for a flag nobody sets
C18_NoWorkerState ==
    /\ pc = "parallel"
    /\ threads = 0
    /\ tasks = <<>>
    /\ dispatcher = "waiting"
    /\ ~status
    /\ ~ENABLED ParallelStep

\* how many times batch b stands in the sequence q
RECURSIVE CountOf(_, _)
CountOf(q, b) ==
    IF q = <<>> THEN 0
    ELSE (IF Head(q) = b THEN 1 ELSE 0) + CountOf(Tail(q), b)

\* the batches of the tasks, in spawn order
Batches == [i \in DOMAIN tasks |-> tasks[i].items]

\* the queue holds the batch of every task exactly once, in some order
EachBatchOnce ==
    /\ Len(result_queue) = Len(tasks)
    /\ \A i \in DOMAIN tasks :
          CountOf(result_queue, tasks[i].items) = CountOf(Batches, tasks[i].items)

\* the blocks spawned cover pairwise disjoint ranges of x
DisjointBlocks ==
    \A i, j \in DOMAIN tasks :
        i < j => tasks[i].block_start + parallel_block_size <= tasks[j].block_start

\* C19: in run_parallel no relation a worker found is lost or duplicated and
\* no worker writes the returned list or the sieve cursor: the blocks spawned
\* are pairwise disjoint, every task spawned has finished when the call
\* returns, the list returned holds every task's batch exactly once (and so
\* no x twice), and the counter is then want_k minus the length of the list.
C19_NothingLostOrDuplicated ==
    [][pc = "parallel" =>
          /\ DisjointBlocks
          /\ pc' = "parallel" => (next_block' = next_block /\ table' = table)
          /\ pc' # "parallel" =>
                /\ \A i \in DOMAIN tasks : tasks[i].at = "finished"
                /\ EachBatchOnce
                /\ table' = table \o Flatten(result_queue)
                /\ \A i, j \in DOMAIN Flatten(result_queue) :
                      i < j => Flatten(result_queue)[i].number
                                   # Flatten(result_queue)[j].number
                /\ results = total_numbers - Len(Flatten(result_queue))
                /\ next_block' = par_next_block]_vars

\* two workers, three blocks: the closure has left its loop, every task has
\* finished, and the batches were pushed in another order than spawned
C19_Witness ==
    /\ pc = "parallel"
    /\ dispatcher = "joining"
    /\ threads = 2
    /\ Len(tasks) >= 3
    /\ \A i \in DOMAIN tasks : tasks[i].at = "finished"
    /\ result_queue # Batches
    /\ Len(Flatten(result_queue)) >= 2
    /\ ENABLED ParallelReturn

\* The claims about the sieve cursor

\* the x of the relations of a list go strictly up
IncreasingNumbers(smoothies) ==
    \A i, j \in DOMAIN smoothies :
        i < j => smoothies[i].number < smoothies[j].number

\* C20: the cursor starts at floor(sqrt(N)) + 1, only increases and is kept
\* from one run call to the next on the same sieve; over the retries of one
\* run_factor the table only grows by appending (a relation keeps its index)
\* and its x go strictly up: no x is examined or emitted twice.
C20_CursorOnlyAdvances ==
    [][/\ (engine = None /\ engine' # None) => next_block' = sqrt(n) + 1
       /\ engine # None =>
             /\ next_block' >= next_block
             /\ (pc # "running" \/ pc' # "running") => next_block' = next_block
       /\ Len(table') >= Len(table)
       /\ \A i \in DOMAIN table : table'[i] = table[i]
       /\ IncreasingNumbers(IF pc' = "running" THEN table' \o run_result'
                                              ELSE table')
       /\ \A i \in DOMAIN run_result' :
             /\ i <= Len(run_result) => run_result'[i] = run_result[i]
             /\ (i > Len(run_result) /\ run_result' # <<>> /\ pc = "running") =>
                   /\ run_result'[i].number >= next_block
                   /\ run_result'[i].number < next_block'
       /\ \A i \in DOMAIN table' :
             /\ table'[i].number >= sqrt(n) + 1
             /\ table'[i].number < next_block']_vars

\* a retry of run_factor whose run call went on from the cursor the run call
\* before it had left, and added relations behind those of the table
C20_Witness ==
    /\ pc = "collected"
    /\ attempt # None
    /\ attempt[1] >= 1
    /\ run_result # <<>>
    /\ Len(table) > Len(run_result)
    /\ table[Len(table) - Len(run_result)].number < run_result[1].number

(***************************************************************************)
(* Functions called on their own, on arguments drawn from small ranges:    *)
(* SpecCalls.  call holds <<name, arguments>>, returned the result.        *)
(***************************************************************************)

\* test_factorization: the numbers to factor and the values of a and b
MaxTestN == 16

MaxTestArg == 24

TestFactorizationCalls ==
    {<<"test_factorization", <<nn, a, b>>>> :
        nn \in 1..MaxTestN, a \in 0..MaxTestArg, b \in 0..MaxTestArg}

\* what a call on its own leaves alone
CallFrame ==
    /\ UNCHANGED <<call, substituted, free_mapping, tried, found, factorize_vars>>
    /\ UNCHANGED <<solver_vars, sieve_vars, ts_result>>

\* test_factorization(n, a, b)
TestFactorization ==
    /\ pc = "call"
    /\ call[1] = "test_factorization"
    /\ returned' = test_factorization(call[2][1], call[2][2], call[2][3])
    /\ pc' = "returned"
    /\ UNCHANGED <<call, substituted, free_mapping, tried, found, factorize_vars>>
    /\ UNCHANGED <<solver_vars, sieve_vars, ts_result>>

\* the longest byte string n.to_bytes_be() is taken to give
MaxBytes == 66

\* the dispatch with every comparison taken as <=
limbs_inclusive(len) ==
    IF len <= 8 THEN 1 ELSE IF len <= 16 THEN 2 ELSE IF len <= 32 THEN 4 ELSE 8

\* LIMBS of the run_factorization_generic::<LIMBS> that factorize calls on
\* bytes of length len
limbs(len) ==
    IF len < 8 THEN 1 ELSE IF len < 16 THEN 2 ELSE IF len < 32 THEN 4 ELSE 8

\* LIMBS * std::mem::size_of::<usize>(), the bytes of UInt<LIMBS>
size_in_bytes(LIMBS) == LIMBS * 8

\* factorize from `let bytes = n.to_bytes_be()` on, for bytes of length len:
\* the branch and the width of the integers the sieve then runs on
dispatch_on_length(len) ==
    IF len >= 64 THEN [path |-> "too_big", width |-> 0]
    ELSE IF len < 4 THEN [path |-> "trial_divide", width |-> 0]
    ELSE [path |-> "sieve", width |-> size_in_bytes(limbs(len))]

DispatchCalls == {<<"factorize", <<len>>>> : len \in 1..MaxBytes}

\* factorize on a number of call[2][1] bytes, down to the call it dispatches to
DispatchOnLength ==
    /\ pc = "call"
    /\ call[1] = "factorize"
    /\ returned' = dispatch_on_length(call[2][1])
    /\ pc' = "returned"
    /\ CallFrame

\* search_block's index arithmetic: the primes, up to MaxIndexPrime, with
\* their roots 1..p-1, and the block starts from the root up to MaxStart
MaxIndexPrime == 13

MaxStart == 40

ClosestIndexCalls ==
    {<<"search_block", <<start, root, prime>>>> :
        start \in 1..MaxStart, root \in 1..MaxIndexPrime,
        prime \in {q \in 3..MaxIndexPrime : IsPrime(q)}}

\* search_block from `let mut closest_element` to the debug_assert!, for one
\* root of one prime (2 has no roots): idx and what the assertion evaluates to
ClosestIndex ==
    /\ pc = "call"
    /\ call[1] = "search_block"
    /\ LET start == call[2][1]
           root == call[2][2]
           prime == call[2][3]
           idx == closest_index(start, root, prime)
       IN  returned' = [idx |-> idx,
                        assertion |-> (start + idx) % prime = root]
    /\ pc' = "returned"
    /\ CallFrame

\* trial_divide on its own: the values 0..MaxTrialN and the tables of up to
\* MaxTableLen increasing primes out of TrialPrimes
MaxTrialN == 30

MaxTableLen == 3

TrialPrimes == {2, 3, 5, 7}

PrimeTables ==
    {t \in UNION {[1..k -> TrialPrimes] : k \in 0..MaxTableLen} :
        \A i, j \in DOMAIN t : i < j => t[i] < t[j]}

TrialDivideCalls ==
    {<<"trial_divide", <<nn, t>>>> : nn \in 0..MaxTrialN, t \in PrimeTables}

\* trial_divide(n, prime_table); a call whose inner loop does not end never
\* returns
TrialDivide ==
    /\ pc = "call"
    /\ call[1] = "trial_divide"
    /\ LET out == trial_divide(call[2][1], call[2][2])
       IN  IF out = "Diverges"
           THEN pc' = "hung" /\ UNCHANGED returned
           ELSE pc' = "returned" /\ returned' = out
    /\ CallFrame

InitCalls ==
    /\ pc = "call"
    /\ call \in TestFactorizationCalls \cup DispatchCalls \cup TrialDivideCalls
                \cup {c \in ClosestIndexCalls :
                         c[2][2] < c[2][3] /\ c[2][1] >= c[2][2]}
    /\ returned = None
    /\ substituted = None
    /\ free_mapping = <<>>
    /\ tried = <<>>
    /\ found = None
    /\ number_repr = <<>>
    /\ outcome = None
    /\ ts_result = None
    /\ NoSieve
    /\ input = <<>> /\ rows = <<>> /\ row_labels = <<>> /\ x_labels = <<>>
    /\ prev = <<>> /\ args = <<>> /\ diag_count = 0 /\ vectors = <<>>
    /\ solution = None

NextCalls ==
    \/ TestFactorization
    \/ DispatchOnLength
    \/ ClosestIndex
    \/ TrialDivide

SpecCalls == InitCalls /\ [][NextCalls]_vars

\* The claims about the functions called on their own

\* the greatest common divisor as the largest number dividing both (x >= 1)
GreatestCommonDivisor(x, y) ==
    CHOOSE g \in 1..x :
        /\ x % g = 0 /\ y % g = 0
        /\ \A h \in 1..x : (x % h = 0 /\ y % h = 0) => h <= g

AbsDiff(x, y) == IF x >= y THEN x - y ELSE y - x

\* C21: test_factorization(N, a, b) returns a pair exactly when
\* g = gcd(N, |a mod N - b mod N|) has 1 < g < N, and the pair is (g, N / g);
\* for g = 1 and g = N (a = b mod N, the difference 0, included) it returns
\* None; the subtraction never goes below zero.
C21_TestFactorization ==
    (pc = "returned" /\ call[1] = "test_factorization") =>
        LET nn == call[2][1]
            g == GreatestCommonDivisor(nn,
                     AbsDiff(call[2][2] % nn, call[2][3] % nn))
        IN  /\ returned # "Panic"
            /\ (1 < g /\ g < nn) => returned = <<g, nn \div g>>
            /\ (g = 1 \/ g = nn) => returned = None

\* b was the greater one mod N, and a pair came back: gcd(15, |2 - 8|) = 3
C21_Witness ==
    /\ pc = "returned"
    /\ call = <<"test_factorization", <<15, 17, 8>>>>
    /\ returned = <<3, 5>>

Widths == {8, 16, 32, 64}

C25_ClosestIndex ==
    (pc = "returned" /\ call[1] = "search_block") =>
        LET x0 == call[2][1]
            r == call[2][2]
            p == call[2][3]
            i == returned.idx
        IN  /\ 0 <= i /\ i < p
            /\ (x0 + i) % p = r
            /\ \A j \in 0..(i - 1) : (x0 + j) % p # r
            /\ returned.assertion

\* the block starts one past an element of the stride: ((25 - 3) / 7) * 7 + 3
\* = 24 lies below 25, and the index is 24 + 7 - 25 = 6
C25_Witness ==
    /\ pc = "returned"
    /\ call = <<"search_block", <<25, 3, 7>>>>
    /\ returned.idx = 6
    /\ returned.assertion

\* the spawned blocks whose task has not yet set the flag and ended
Unfinished == {i \in DOMAIN tasks : tasks[i].at # "finished"}

\* the blocks still being searched when results first was <= 0, and the
\* blocks spawned from then on
ExtraBlocks == {i \in DOMAIN tasks : tasks[i].extra}

\* C26: at every moment of run_parallel with W workers at most W spawned
\* blocks have a worker that has not yet finished, and at most W blocks are
\* still running, or are started, after the deficit first reaches the target.
C26_AtMostWExtraBlocks ==
    pc = "parallel" =>
        /\ Cardinality(Unfinished) <= threads
        /\ Cardinality(ExtraBlocks) <= threads

\* what does hold: at most W blocks are unfinished at any moment
C26_AtMostWUnfinished ==
    pc = "parallel" => Cardinality(Unfinished) <= threads

\* what does hold: unless the dispatcher spawned a block on a deficit of
\* exactly 0, the extra blocks are the ones still searched when the deficit
\* reached the target, at most W
C26_AtMostWWithoutSpawnAtZero ==
    (pc = "parallel"
        /\ \A i \in DOMAIN tasks : i > threads => ~tasks[i].extra)
        => Cardinality(ExtraBlocks) <= threads

\* one worker, relations wanted: its first block met the count exactly, the
\* second block, spawned on a deficit of 0, has been searched and the third
\* is spawned
C26_TwoExtraBlocks ==
    /\ pc = "parallel"
    /\ threads = 1
    /\ total_numbers > 0
    /\ Len(tasks) = 3
    /\ ~tasks[1].extra /\ tasks[2].extra /\ tasks[3].extra
    /\ tasks[2].at = "finished"

\* the dispatcher is in cvar.wait with the flag false
DispatcherBlocked ==
    /\ pc = "parallel"
    /\ threads >= 1
    /\ dispatcher = "waiting"
    /\ ~status

C29_MoreColumnsThanRows ==
    /\ pc # "panic"
    /\ pc \in {"collected", "system"} =>
          /\ numbers_to_find <= 0
          /\ Len(table) >= sieving_limit
          /\ Len(table) >= Len(factor_base) + 5
    /\ pc = "system" =>
          /\ Len(rows) = Len(factor_base)
          /\ Len(x_labels) = Len(table)
          /\ Len(x_labels) > Len(rows)
    /\ vectors # None =>
          \A v \in DOMAIN vectors : \A k \in DOMAIN vectors[v] :
              vectors[v][k] \in 0..(Len(table) - 1)

\* a second attempt: the first fast_pivot returned vectors that gave no
\* factor, the sieve has run again and the wider system is built
C29_Witness ==
    /\ pc = "system"
    /\ attempt[1] >= 1
    /\ vectors # None /\ vectors # <<>>
    /\ Len(x_labels) > Len(rows) + 5

\* v is a product of powers of the primes of the table: it is 1 or more and
\* every prime that divides it is in the table
IsProductOfPowers(v, prime_table) ==
    /\ v >= 1
    /\ \A q \in 2..v :
          (IsPrime(q) /\ v % q = 0) => \E k \in DOMAIN prime_table : prime_table[k] = q

\* base to the power e
RECURSIVE Power(_, _)
Power(base, e) == IF e = 0 THEN 1 ELSE base * Power(base, e - 1)

\* the product of the powers of a DenseMultiplierMap
RECURSIVE ProductOfMap(_)
ProductOfMap(mapping) ==
    IF mapping = <<>> THEN 1
    ELSE Power(Head(mapping)[1], Head(mapping)[2]) * ProductOfMap(Tail(mapping))

\* a call of trial_divide that returned did so with a factorization exactly
\* for the products of powers of the primes of the table
TrialDivideReturn ==
    (pc = "returned" /\ call[1] = "trial_divide") =>
        /\ returned # None <=> IsProductOfPowers(call[2][1], call[2][2])
        /\ returned # None => ProductOfMap(returned[1]) = call[2][1]

\* C30: trial_divide(n, primes) terminates for every n a sieve can pass, 0
\* (x^2 mod N = 0) and 1 included, and returns a factorization exactly when
\* n is a product of powers of the given primes.
C30_TrialDivideTerminates ==
    call[1] = "trial_divide" => (pc # "hung" /\ TrialDivideReturn)

\* what does hold: the same for every n >= 1
C30_OnPositiveNumbers ==
    (call[1] = "trial_divide" /\ call[2][1] >= 1) =>
        (pc # "hung" /\ TrialDivideReturn)

\* trial_divide(0, [2]): 0 = 0 * 2 for ever
C30_DivergesOnZero ==
    /\ pc = "hung"
    /\ call = <<"trial_divide", <<0, <<2>>>>>>
    /\ returned = None

====
